---- MODULE Spec2Model ----
(***************************************************************************)
(* A model of xmlrfc2md (src/xmlrfc2md.py) and of its earlier copy         *)
(* xml2md (src/xml2md.py): the conversion of an RFC XML tree to            *)
(* kramdown-rfc Markdown.                                                  *)
(*                                                                         *)
(* Text is a sequence of one-character strings.  A Python value that may   *)
(* be None is a sequence of length 0 (None) or 1 (the value).  An XML      *)
(* element is a record [tag, attrib, text, tail, kids].                    *)
(***************************************************************************)
EXTENDS Integers, Sequences, FiniteSets, TLC

VARIABLES
    pc,       \* "ready" before the call, "done" after it returned, "aborted" after an uncaught exception
    op,       \* the function the last step called
    arg,      \* the input of the call
    ret,      \* what the call returned
    log,      \* the logging records the call emitted, in order
    outfile   \* None, or the text main() wrote to the output file

vars == <<pc, op, arg, ret, log, outfile>>

None == <<>>
Some(x) == <<x>>
IsNone(o) == o = <<>>
Val(o) == o[1]

(***************************************************************************)
(* Python's str and list primitives                                        *)
(***************************************************************************)
StrUpTo(A, n) == UNION {[1..k -> A] : k \in 0..n}

Last(s) == s[Len(s)]

Whitespace == {" ", "\n", "\t"}

endswith(s, suffix) ==
    /\ Len(suffix) <= Len(s)
    /\ SubSeq(s, Len(s) - Len(suffix) + 1, Len(s)) = suffix

startswith(s, prefix) ==
    /\ Len(prefix) <= Len(s)
    /\ SubSeq(s, 1, Len(prefix)) = prefix

removeprefix(s, prefix) ==
    IF startswith(s, prefix) THEN SubSeq(s, Len(prefix) + 1, Len(s)) ELSE s

RECURSIVE lstrip(_)
lstrip(s) ==
    IF s # <<>> /\ Head(s) \in Whitespace THEN lstrip(Tail(s)) ELSE s

RECURSIVE rstrip(_)
rstrip(s) ==
    IF s # <<>> /\ Last(s) \in Whitespace THEN rstrip(SubSeq(s, 1, Len(s) - 1)) ELSE s

strip(s) == lstrip(rstrip(s))

\* the index of the first line break of s, 0 when it has none
RECURSIVE FirstBreak(_, _)
FirstBreak(s, i) ==
    IF i > Len(s) THEN 0
    ELSE IF s[i] = "\n" THEN i
    ELSE FirstBreak(s, i + 1)

\* str.splitlines(): a final line break ends the last line and opens no new one
RECURSIVE splitlines(_)
splitlines(t) ==
    IF t = <<>> THEN <<>>
    ELSE LET i == FirstBreak(t, 1) IN
         IF i = 0 THEN <<t>>
         ELSE <<SubSeq(t, 1, i - 1)>> \o splitlines(SubSeq(t, i + 1, Len(t)))

\* sep.join(parts)
RECURSIVE join(_, _)
join(sep, parts) ==
    IF parts = <<>> THEN <<>>
    ELSE IF Len(parts) = 1 THEN parts[1]
    ELSE parts[1] \o sep \o join(sep, Tail(parts))

\* str.replace(old, new) for a one-character old
RECURSIVE replace(_, _, _)
replace(t, old, new) ==
    IF t = <<>> THEN <<>>
    ELSE (IF Head(t) = old THEN new ELSE <<Head(t)>>) \o replace(Tail(t), old, new)

RECURSIVE repeat(_, _)
repeat(s, n) == IF n <= 0 THEN <<>> ELSE s \o repeat(s, n - 1)

(***************************************************************************)
(* Text formatting utilities                                               *)
(***************************************************************************)
collapse_line_keep(ln) == ln

collapse_line(ln) ==
    LET lst == lstrip(ln) IN
    IF lst # ln THEN <<" ">> \o lst ELSE lst

RECURSIVE collapse_lines(_)
collapse_lines(lines) ==
    IF lines = <<>> THEN <<>>
    ELSE <<collapse_line(Head(lines))>> \o collapse_lines(Tail(lines))

collapse_spaces(t, span) ==
    LET out == collapse_lines(splitlines(t)) IN
    IF ~span THEN join(<<"\n">>, out) ELSE join(<<" ">>, out)

\* xml2md.py's copy has no span mode
collapse_spaces_xml2md(t) ==
    join(<<"\n">>, collapse_lines(splitlines(t)))

concat_no_period(s, t) ==
    IF s = <<>> \/ t = <<>> THEN s \o t
    ELSE IF \/ endswith(s, <<"(">>) \/ endswith(s, <<"[">>) \/ endswith(s, <<"\"">>)
            \/ startswith(t, <<" ">>) \/ startswith(t, <<"\n">>)
         THEN s \o t
         ELSE s \o <<" ">> \o t

concat_with_space(s, t) ==
    IF s = <<>> \/ t = <<>> THEN s \o t
    ELSE IF \/ endswith(s, <<"(">>) \/ endswith(s, <<"[">>) \/ endswith(s, <<".">>)
            \/ endswith(s, <<"\"">>)
            \/ startswith(t, <<" ">>) \/ startswith(t, <<"\n">>)
         THEN s \o t
         ELSE s \o <<" ">> \o t

simple_escape(t) ==
    LET t1 == replace(t, "<", <<"&", "l", "t", ";">>)
        t2 == replace(t1, ">", <<"&", "g", "t", ";">>)
        t3 == replace(t2, "[", <<"\\", "[">>)
        t4 == replace(t3, "]", <<"\\", "]">>)
    IN replace(t4, "\t", <<" ">>)

escape_title(t) == replace(t, "\t", <<" ">>)

escape_sourcecode(t) == replace(t, "\t", <<" ">>)

(***************************************************************************)
(* concat_with_space on pairs of fragments                                 *)
(***************************************************************************)
MaxFragment == 2

FragmentChars == {"a", "(", "[", ".", "\"", " ", "\n"}

Fragments == StrUpTo(FragmentChars, MaxFragment)

ParenText == [s |-> <<"(">>, t |-> <<"t", "e", "x", "t">>]

ConcatInputs == [s : Fragments, t : Fragments] \cup {ParenText}

InitConcat ==
    /\ pc = "ready"
    /\ op = "none"
    /\ arg \in ConcatInputs
    /\ ret = <<>>
    /\ log = <<>>
    /\ outfile = None

CallConcat ==
    /\ pc = "ready"
    /\ pc' = "done"
    /\ op' = "concat_with_space"
    /\ ret' = concat_with_space(arg.s, arg.t)
    /\ UNCHANGED <<arg, log, outfile>>

SpecConcat == InitConcat /\ [][CallConcat]_vars

\* what the claim calls a boundary that wants no space
NoGapWanted(left, right) ==
    \/ left = <<>>
    \/ right = <<>>
    \/ Last(left) \in {"(", "[", "\"", "."}
    \/ Head(right) \in {" ", "\n"}

\* C8: concat_with_space(left, right) is left+right when either is empty, when
\* left ends with "(", "[", a double quote or a period, or when right begins
\* with a space or a newline; otherwise it is left, one space, right.  So "("
\* joined with "text" is "(text".
C8_ConcatGapRule ==
    (pc = "done" /\ op = "concat_with_space") =>
        /\ NoGapWanted(arg.s, arg.t) => ret = arg.s \o arg.t
        /\ ~NoGapWanted(arg.s, arg.t) => ret = arg.s \o <<" ">> \o arg.t
        /\ arg = ParenText => ret = <<"(", "t", "e", "x", "t">>

C8_Witness ==
    /\ pc = "done"
    /\ op = "concat_with_space"
    /\ arg = ParenText
    /\ ret = <<"(", "t", "e", "x", "t">>

(***************************************************************************)
(* collapse_spaces on short texts, in both modes and in both copies        *)
(***************************************************************************)
MaxText == 4

TextChars == {"a", "b", " ", "\n"}

Texts == StrUpTo(TextChars, MaxText)

InitCollapse ==
    /\ pc = "ready"
    /\ op = "none"
    /\ arg \in [t : Texts, span : BOOLEAN]
    /\ ret = <<>>
    /\ log = <<>>
    /\ outfile = None

CallCollapse ==
    /\ pc = "ready"
    /\ pc' = "done"
    /\ op' = "collapse_spaces"
    /\ ret' = collapse_spaces(arg.t, arg.span)
    /\ UNCHANGED <<arg, log, outfile>>

\* xml2md.py's collapse_spaces takes the text only
CallCollapseXml2md ==
    /\ pc = "ready"
    /\ ~arg.span
    /\ pc' = "done"
    /\ op' = "collapse_spaces_xml2md"
    /\ ret' = collapse_spaces_xml2md(arg.t)
    /\ UNCHANGED <<arg, log, outfile>>

NextCollapse == CallCollapse \/ CallCollapseXml2md

SpecCollapse == InitCollapse /\ [][NextCollapse]_vars

RECURSIVE NonWhitespace(_)
NonWhitespace(t) ==
    IF t = <<>> THEN <<>>
    ELSE (IF Head(t) \in Whitespace THEN <<>> ELSE <<Head(t)>>) \o NonWhitespace(Tail(t))

\* the lines of a text as str.split("\n") gives them: a final line break opens an empty last line
RECURSIVE SplitOnBreaks(_)
SplitOnBreaks(t) ==
    LET i == FirstBreak(t, 1) IN
    IF i = 0 THEN <<t>>
    ELSE <<SubSeq(t, 1, i - 1)>> \o SplitOnBreaks(SubSeq(t, i + 1, Len(t)))

LeadingWhitespace(ln) == Len(ln) - Len(lstrip(ln))

TrailingWhitespace(t) == SubSeq(t, Len(rstrip(t)) + 1, Len(t))

CollapseDone == pc = "done" /\ op \in {"collapse_spaces", "collapse_spaces_xml2md"}

\* C9 as stated: every output line has at most one leading space, and the
\* non-whitespace characters and the trailing whitespace of the text (with its
\* final line break when not in span mode) are those of the input.
C9_AsStated ==
    CollapseDone =>
        /\ \A i \in DOMAIN SplitOnBreaks(ret) : LeadingWhitespace(SplitOnBreaks(ret)[i]) <= 1
        /\ NonWhitespace(ret) = NonWhitespace(arg.t)
        /\ TrailingWhitespace(ret) =
              IF arg.span THEN replace(TrailingWhitespace(arg.t), "\n", <<" ">>)
              ELSE TrailingWhitespace(arg.t)

\* C9 (amended): collapse_spaces keeps the non-whitespace characters in order.
\* Not in span mode the output has one line per input line (a final line break
\* of the input is dropped), each output line has at most one leading space,
\* has one exactly when the input line began with whitespace, and is otherwise
\* the input line from its first non-whitespace character on (internal runs of
\* spaces and the trailing spaces of a line that has ink are kept; a line of
\* whitespace only becomes one space).  In span mode the output is the
\* non-span output with every line break replaced by one space, and has no
\* line break.
C9_CollapseLeadingOnly ==
    CollapseDone =>
        LET lines == splitlines(arg.t)
            olines == SplitOnBreaks(ret)
        IN /\ NonWhitespace(ret) = NonWhitespace(arg.t)
           /\ (~arg.span /\ lines = <<>>) => ret = <<>>
           /\ (~arg.span /\ lines # <<>>) =>
                /\ Len(olines) = Len(lines)
                /\ \A i \in DOMAIN lines :
                      /\ LeadingWhitespace(olines[i]) <= 1
                      /\ LeadingWhitespace(olines[i]) = 1 <=> LeadingWhitespace(lines[i]) >= 1
                      /\ lstrip(olines[i]) = lstrip(lines[i])
           /\ arg.span =>
                /\ FirstBreak(ret, 1) = 0
                /\ ret = replace(join(<<"\n">>, collapse_lines(lines)), "\n", <<" ">>)

\* a text whose final line break is dropped and whose indented line keeps one space
C9_Witness ==
    /\ pc = "done"
    /\ op = "collapse_spaces"
    /\ ~arg.span
    /\ arg.t = <<" ", " ", "a", "\n">>
    /\ ret = <<" ", "a">>

(***************************************************************************)
(* textwrap.TextWrapper(width, replace_whitespace=False,                   *)
(* break_on_hyphens=False), with the defaults expand_tabs, drop_whitespace *)
(* and break_long_words, and fill_text                                     *)
(***************************************************************************)
\* the width the model wraps at; the wrapper of xmlrfc2md.py:11 has width=120
WrapWidth == 3

TabSize == 8

\* str.expandtabs(): a tab fills up to the next multiple of TabSize
RECURSIVE expandtabs(_, _)
expandtabs(s, col) ==
    IF s = <<>> THEN <<>>
    ELSE IF Head(s) = "\t"
         THEN LET n == TabSize - (col % TabSize) IN repeat(<<" ">>, n) \o expandtabs(Tail(s), 0)
    ELSE IF Head(s) = "\n" THEN <<"\n">> \o expandtabs(Tail(s), 0)
    ELSE <<Head(s)>> \o expandtabs(Tail(s), col + 1)

\* the index where the run of whitespace, or of ink, that starts s ends
RECURSIVE RunEnd(_, _)
RunEnd(s, i) ==
    IF i < Len(s) /\ ((s[i + 1] \in Whitespace) <=> (s[i] \in Whitespace))
    THEN RunEnd(s, i + 1)
    ELSE i

\* TextWrapper._split with wordsep_simple_re: maximal runs of whitespace and of ink
RECURSIVE split_chunks(_)
split_chunks(s) ==
    IF s = <<>> THEN <<>>
    ELSE LET e == RunEnd(s, 1) IN
         <<SubSeq(s, 1, e)>> \o split_chunks(SubSeq(s, e + 1, Len(s)))

\* the inner loop of _wrap_chunks: take chunks while they fit the line
RECURSIVE take_fitting(_, _, _, _)
take_fitting(chunks, cur_line, cur_len, width) ==
    IF chunks # <<>> /\ cur_len + Len(Head(chunks)) <= width
    THEN take_fitting(Tail(chunks), Append(cur_line, Head(chunks)),
                      cur_len + Len(Head(chunks)), width)
    ELSE [chunks |-> chunks, cur_line |-> cur_line, cur_len |-> cur_len]

\* TextWrapper._handle_long_word with break_long_words
handle_long_word(st, width) ==
    LET space_left == IF width < 1 THEN 1 ELSE width - st.cur_len
        chunk == Head(st.chunks)
    IN [chunks |-> <<SubSeq(chunk, space_left + 1, Len(chunk))>> \o Tail(st.chunks),
        cur_line |-> Append(st.cur_line, SubSeq(chunk, 1, space_left)),
        cur_len |-> st.cur_len + space_left]

\* TextWrapper._wrap_chunks with drop_whitespace, no indent and no max_lines
RECURSIVE wrap_chunks(_, _, _)
wrap_chunks(chunks, lines, width) ==
    IF chunks = <<>> THEN lines
    ELSE LET c0 == IF strip(Head(chunks)) = <<>> /\ lines # <<>> THEN Tail(chunks) ELSE chunks
             st1 == take_fitting(c0, <<>>, 0, width)
             st2 == IF st1.chunks # <<>> /\ Len(Head(st1.chunks)) > width
                    THEN handle_long_word(st1, width)
                    ELSE st1
             cur == IF st2.cur_line # <<>> /\ strip(Last(st2.cur_line)) = <<>>
                    THEN SubSeq(st2.cur_line, 1, Len(st2.cur_line) - 1)
                    ELSE st2.cur_line
         IN wrap_chunks(st2.chunks,
                        IF cur # <<>> THEN Append(lines, join(<<>>, cur)) ELSE lines,
                        width)

wrap(text, width) == wrap_chunks(split_chunks(expandtabs(text, 0)), <<>>, width)

fill(text, width) == join(<<"\n">>, wrap(text, width))

RECURSIVE fill_each(_, _)
fill_each(paragraphs, width) ==
    IF paragraphs = <<>> THEN <<>>
    ELSE <<fill(Head(paragraphs), width)>> \o fill_each(Tail(paragraphs), width)

fill_text(text) == join(<<"\n">>, fill_each(splitlines(text), WrapWidth))

MaxFill == 5

FillChars == {"a", " ", "\n"}

InitFill ==
    /\ pc = "ready"
    /\ op = "none"
    /\ arg \in StrUpTo(FillChars, MaxFill)
    /\ ret = <<>>
    /\ log = <<>>
    /\ outfile = None

\* parse_rfc's fill pass over an extracted text
CallFill ==
    /\ pc = "ready"
    /\ pc' = "done"
    /\ op' = "fill_text"
    /\ ret' = fill_text(arg)
    /\ UNCHANGED <<arg, log, outfile>>

\* the pass run again over its own output
CallFillAgain ==
    /\ pc = "done"
    /\ pc' = "refilled"
    /\ op' = "fill_text"
    /\ ret' = fill_text(ret)
    /\ UNCHANGED <<arg, log, outfile>>

NextFill == CallFill \/ CallFillAgain

SpecFill == InitFill /\ [][NextFill]_vars

\* C10: re-wrapping is idempotent: fill_text(fill_text(t)) = fill_text(t).
C10_FillIdempotent ==
    pc = "refilled" => ret = fill_text(arg)

(***************************************************************************)
(* XML elements (xml.etree.ElementTree.Element)                            *)
(***************************************************************************)
\* attrib maps the names of the attributes present to their values (texts)
Element(tag, attrib, text, kids, tail) ==
    [tag |-> tag, attrib |-> attrib, text |-> text, kids |-> kids, tail |-> tail]

NoAttrib == <<>>

\* the attribute key with value Val(o), or no attribute when o is None
Attr(key, o) == IF IsNone(o) THEN NoAttrib ELSE key :> Val(o)

\* Element.get(key): None when the attribute is absent
get(elem, key) ==
    IF key \in DOMAIN elem.attrib THEN Some(elem.attrib[key]) ELSE None

LogRecord(level, msg) == [level |-> level, msg |-> msg]

(***************************************************************************)
(* The inline renderer: cross-references                                   *)
(***************************************************************************)
badxref == <<"b", "a", "d", "x", "r", "e", "f">>

SectionFormatOf == <<"o", "f">>
SectionFormatComma == <<"c", "o", "m", "m", "a">>
SectionFormatParens == <<"p", "a", "r", "e", "n", "s">>
SectionFormatBare == <<"b", "a", "r", "e">>
FormatDefault == <<"d", "e", "f", "a", "u", "l", "t">>
FormatCounter == <<"c", "o", "u", "n", "t", "e", "r">>

SectionWord == <<"S", "e", "c", "t", "i", "o", "n", " ">>
OfWord == <<" ", "o", "f", " ">>
CommaSectionWord == <<",", " ", "S", "e", "c", "t", "i", "o", "n", " ">>
OpenRef == <<"{", "{">>
CloseRef == <<"}", "}">>

\* the match statement of extract_xref with the "parens" case returning the
\* "comma" rendering
xref_section_parens_as_comma(target, section, section_format) ==
    IF section_format = Some(SectionFormatOf)
    THEN SectionWord \o section \o OfWord \o OpenRef \o target \o CloseRef
    ELSE IF section_format \in {Some(SectionFormatComma), Some(SectionFormatParens)}
    THEN OpenRef \o target \o CloseRef \o CommaSectionWord \o section
    ELSE IF section_format = Some(SectionFormatBare)
    THEN section
    ELSE badxref

\* the match statement of extract_xref (xmlrfc2md.py:97-108); on the default
\* case the text is returned only when building the log message did not raise
xref_section(target, section, section_format) ==
    IF section_format = Some(SectionFormatOf)
    THEN SectionWord \o section \o OfWord \o OpenRef \o target \o CloseRef
    ELSE IF section_format = Some(SectionFormatComma)
    THEN OpenRef \o target \o CloseRef \o CommaSectionWord \o section
    ELSE IF section_format = Some(SectionFormatParens)
    THEN OpenRef \o target \o CloseRef \o <<" ", "(">> \o section \o <<")">>
    ELSE IF section_format = Some(SectionFormatBare)
    THEN section
    ELSE badxref

extract_xref(elem) ==
    LET target == get(elem, "target")
        section == get(elem, "section")
        section_format == get(elem, "sectionFormat")
        fmt == get(elem, "format")
        txt == elem.text
    IN IF IsNone(target) THEN badxref
       ELSE IF ~IsNone(txt)
       THEN <<"[">> \o simple_escape(Val(txt)) \o <<"]", "(", "#">> \o Val(target) \o <<")">>
       ELSE IF IsNone(section)
       THEN IF fmt = Some(FormatCounter)
            THEN <<"{", "{", "<">> \o Val(target) \o CloseRef
            ELSE OpenRef \o Val(target) \o CloseRef
       ELSE xref_section(Val(target), Val(section), section_format)

\* extract_xref if the default case could log whatever section_format is
extract_xref_never_raises(elem) == FALSE

\* line 107 concatenates section_format to the message: a TypeError when it is None
extract_xref_raises(elem) ==
    /\ ~IsNone(get(elem, "target"))
    /\ IsNone(elem.text)
    /\ ~IsNone(get(elem, "section"))
    /\ IsNone(get(elem, "sectionFormat"))

\* the logging records of a call of extract_xref that returns
extract_xref_log(elem) ==
    IF IsNone(get(elem, "target"))
    THEN <<LogRecord("ERROR", "missing target in xref")>>
    ELSE IF ~IsNone(elem.text)
    THEN IF get(elem, "format") # Some(FormatDefault)
         THEN <<LogRecord("WARNING", "Cannot render specially formatted xref with text content")>>
         ELSE <<>>
    ELSE IF IsNone(get(elem, "section")) THEN <<>>
    ELSE IF get(elem, "sectionFormat") \in
              {Some(SectionFormatOf), Some(SectionFormatComma),
               Some(SectionFormatParens), Some(SectionFormatBare)}
    THEN <<>>
    ELSE <<LogRecord("ERROR", "unsupported xref section format")>>

RFCPrefix == <<"R", "F", "C">>

\* xml2md.py's extract_xref: sections only for targets that start with "RFC",
\* and only the formats "of" and "comma"
extract_xref_xml2md(elem) ==
    LET target == get(elem, "target")
        section == get(elem, "section")
        section_format == get(elem, "sectionFormat")
    IN IF IsNone(target) THEN badxref
       ELSE IF startswith(Val(target), RFCPrefix)
       THEN IF section_format # Some(SectionFormatOf) /\ section_format # Some(SectionFormatComma)
            THEN badxref
            ELSE IF IsNone(section) THEN OpenRef \o Val(target) \o CloseRef
            ELSE IF section_format = Some(SectionFormatOf)
            THEN SectionWord \o Val(section) \o OfWord \o OpenRef \o Val(target) \o CloseRef
            ELSE OpenRef \o Val(target) \o CloseRef \o CommaSectionWord \o Val(section)
       ELSE OpenRef \o Val(target) \o CloseRef

\* xml2md.py:43 concatenates section_format to the message: a TypeError when it is None
extract_xref_xml2md_raises(elem) ==
    /\ ~IsNone(get(elem, "target"))
    /\ startswith(Val(get(elem, "target")), RFCPrefix)
    /\ IsNone(get(elem, "sectionFormat"))

RFC1234 == <<"R", "F", "C", "1", "2", "3", "4">>

XrefTargets == {None, Some(RFC1234), Some(<<"f", "i", "g">>)}
XrefSections == {None, Some(<<"3">>), Some(<<"2", ".", "1">>)}
XrefSectionFormats ==
    {None, Some(SectionFormatOf), Some(SectionFormatComma), Some(SectionFormatParens),
     Some(SectionFormatBare), Some(<<"x">>)}
XrefFormats == {None, Some(FormatDefault), Some(FormatCounter)}
XrefTexts == {None, Some(<<"a">>), Some(<<"a", "<", "b">>)}

XrefElement(target, section, section_format, fmt, txt) ==
    Element("xref",
            Attr("target", target) @@ Attr("section", section)
                @@ Attr("sectionFormat", section_format) @@ Attr("format", fmt),
            txt, <<>>, None)

XrefElements ==
    {XrefElement(t, sec, sf, f, x) :
        t \in XrefTargets, sec \in XrefSections, sf \in XrefSectionFormats,
        f \in XrefFormats, x \in XrefTexts}

InitXref ==
    /\ pc = "ready"
    /\ op = "none"
    /\ arg \in XrefElements
    /\ ret = <<>>
    /\ log = <<>>
    /\ outfile = None

CallXref ==
    /\ pc = "ready"
    /\ op' = "extract_xref"
    /\ IF extract_xref_raises(arg)
       THEN pc' = "aborted" /\ UNCHANGED <<ret, log>>
       ELSE pc' = "done" /\ ret' = extract_xref(arg) /\ log' = extract_xref_log(arg)
    /\ UNCHANGED <<arg, outfile>>

CallXrefXml2md ==
    /\ pc = "ready"
    /\ op' = "extract_xref_xml2md"
    /\ IF extract_xref_xml2md_raises(arg)
       THEN pc' = "aborted" /\ UNCHANGED ret
       ELSE pc' = "done" /\ ret' = extract_xref_xml2md(arg)
    /\ UNCHANGED <<arg, log, outfile>>

NextXref == CallXref \/ CallXrefXml2md

SpecXref == InitXref /\ [][NextXref]_vars

\* the rendering the claim gives for target T, section S and a section format
RenderedAsClaimed(T, S, sf) ==
    IF sf = SectionFormatOf THEN SectionWord \o S \o <<" ", "o", "f", " ", "{", "{">> \o T \o <<"}", "}">>
    ELSE IF sf = SectionFormatComma THEN <<"{", "{">> \o T \o <<"}", "}", ",", " ">> \o SectionWord \o S
    ELSE IF sf = SectionFormatParens THEN <<"{", "{">> \o T \o <<"}", "}", " ", "(">> \o S \o <<")">>
    ELSE S

FourFormats ==
    {SectionFormatOf, SectionFormatComma, SectionFormatParens, SectionFormatBare}

\* a cross-reference with a target, no inline text, a section and one of the four formats
SectionedXref(elem) ==
    /\ ~IsNone(get(elem, "target"))
    /\ IsNone(elem.text)
    /\ ~IsNone(get(elem, "section"))
    /\ ~IsNone(get(elem, "sectionFormat"))
    /\ Val(get(elem, "sectionFormat")) \in FourFormats

Section3OfRFC1234 ==
    <<"S", "e", "c", "t", "i", "o", "n", " ", "3", " ", "o", "f", " ",
      "{", "{", "R", "F", "C", "1", "2", "3", "4", "}", "}">>

\* C1 as stated, of the extract_xref of both copies: a cross-reference with
\* target T, no inline text and section S renders as "Section S of {{T}}",
\* "{{T}}, Section S", "{{T}} (S)" or S for sectionFormat of, comma, parens, bare.
C1_AsStated ==
    (pc = "done" /\ op \in {"extract_xref", "extract_xref_xml2md"} /\ SectionedXref(arg)) =>
        ret = RenderedAsClaimed(Val(get(arg, "target")), Val(get(arg, "section")),
                                Val(get(arg, "sectionFormat")))

\* C1 (amended): xmlrfc2md.py's extract_xref renders the four formats as
\* stated.  xml2md.py's extract_xref renders a section only for a target that
\* starts with "RFC" and only for "of" and "comma" (as stated); for "parens"
\* and "bare" it returns "badxref", and for any other target "{{T}}" whatever
\* the section.  Target RFC1234, section 3, format "of" is
\* "Section 3 of {{RFC1234}}" in both.
C1_XrefSectionFormats ==
    (pc = "done" /\ SectionedXref(arg)) =>
        LET T == Val(get(arg, "target"))
            S == Val(get(arg, "section"))
            sf == Val(get(arg, "sectionFormat"))
        IN /\ op = "extract_xref" => ret = RenderedAsClaimed(T, S, sf)
           /\ op = "extract_xref_xml2md" =>
                ret = IF ~startswith(T, RFCPrefix) THEN <<"{", "{">> \o T \o <<"}", "}">>
                      ELSE IF sf \in {SectionFormatOf, SectionFormatComma}
                      THEN RenderedAsClaimed(T, S, sf)
                      ELSE badxref
           /\ (T = RFC1234 /\ S = <<"3">> /\ sf = SectionFormatOf) => ret = Section3OfRFC1234

C1_Witness ==
    /\ pc = "done"
    /\ op = "extract_xref"
    /\ get(arg, "target") = Some(RFC1234)
    /\ get(arg, "section") = Some(<<"3">>)
    /\ get(arg, "sectionFormat") = Some(SectionFormatOf)
    /\ IsNone(arg.text)
    /\ ret = Section3OfRFC1234

(***************************************************************************)
(* The recursive content extractor and the block renderer                  *)
(***************************************************************************)
Lists_NoType == 0
Lists_Unordered == 1
Lists_Ordered == 2
Lists_Definition == 3

\* Element.find("tag") / find("./tag"): the first child with the tag, or None
RECURSIVE find_from(_, _, _)
find_from(kids, tag, i) ==
    IF i > Len(kids) THEN None
    ELSE IF kids[i].tag = tag THEN Some(kids[i])
    ELSE find_from(kids, tag, i + 1)

find(elem, tag) == find_from(elem.kids, tag, 1)

\* Element.findall("./tag"): the children with the tag, in document order
findall(elem, tag) == SelectSeq(elem.kids, LAMBDA k : k.tag = tag)

KeyId == <<"i", "d">>
KeyTitle == <<"t", "i", "t", "l", "e">>
KeyNumbered == <<"n", "u", "m", "b", "e", "r", "e", "d">>
KeyIndent == <<"i", "n", "d", "e", "n", "t">>
KeyMarkers ==
    <<"s", "o", "u", "r", "c", "e", "c", "o", "d", "e", "-", "m", "a", "r", "k", "e", "r", "s">>
KeyName == <<"s", "o", "u", "r", "c", "e", "c", "o", "d", "e", "-", "n", "a", "m", "e">>

Pair(k, v) == [k |-> k, v |-> v]

RECURSIVE ial_pairs(_)
ial_pairs(pairs) ==
    IF pairs = <<>> THEN <<>>
    ELSE (IF Head(pairs).k = KeyId
          THEN <<" ", "#">> \o Head(pairs).v
          ELSE <<" ">> \o Head(pairs).k \o <<"=", "'">> \o Head(pairs).v \o <<"'">>)
         \o ial_pairs(Tail(pairs))

\* pairs is the dict in insertion order
generate_ial(pairs) ==
    IF Len(pairs) = 0 THEN <<>>
    ELSE <<"{", ":">> \o ial_pairs(pairs) \o <<"}">>

\* without the append to internal_refs, which nothing reads
section_title(elem, level) ==
    LET anchor_name == get(elem, "anchor")
        anchor == IF ~IsNone(anchor_name) THEN <<"{", "#">> \o Val(anchor_name) \o <<"}">>
                  ELSE <<>>
        name == find(elem, "name")
    IN IF IsNone(name) THEN <<>>
       ELSE <<"\n">> \o repeat(<<"#">>, level) \o <<" ">> \o strip(Val(Val(name).text))
            \o <<" ">> \o anchor \o <<"\n">>

Fence == <<"\n", "~", "~", "~">>

TrueText == <<"t", "r", "u", "e">>

\* without the call of throttle, which changes no text
extract_sourcecode(e) ==
    LET lang == get(e, "type")
        t == escape_sourcecode(Val(e.text))
        marker == get(e, "markers")
        name == get(e, "name")
        ials == (IF ~IsNone(marker) /\ marker = Some(TrueText)
                 THEN <<Pair(KeyMarkers, TrueText)>> ELSE <<>>)
                \o (IF ~IsNone(name) THEN <<Pair(KeyName, Val(name))>> ELSE <<>>)
        ial == IF Len(ials) > 0 THEN <<"\n">> \o generate_ial(ials) ELSE <<>>
    IN IF IsNone(lang)
       THEN Fence \o <<"\n">> \o t \o Fence \o ial
       ELSE Fence \o <<" ">> \o Val(lang) \o <<"\n">> \o t \o Fence \o ial

AsciiArt == <<"a", "s", "c", "i", "i", "-", "a", "r", "t">>

\* find("./artset/artwork[@type='ascii-art']")
find_ascii_art(e) ==
    LET arts == SelectSeq(findall(e, "artset"),
                          LAMBDA s : Len(SelectSeq(findall(s, "artwork"),
                                         LAMBDA a : get(a, "type") = Some(AsciiArt))) > 0)
    IN IF arts = <<>> THEN None
       ELSE Some(Head(SelectSeq(findall(Head(arts), "artwork"),
                                LAMBDA a : get(a, "type") = Some(AsciiArt))))

extract_figure(e) ==
    LET anchor == get(e, "anchor")
        no_anchor == IsNone(anchor)
        artset == find(e, "artset")
        content == IF ~IsNone(artset) THEN find_ascii_art(e)
                   ELSE IF ~IsNone(find(e, "artwork")) THEN find(e, "artwork")
                   ELSE find(e, "sourcecode")
        name_el == find(e, "name")
    IN IF IsNone(content) THEN <<>>
       ELSE IF ~IsNone(name_el)
       THEN LET name == Val(Val(name_el).text) IN
            IF ~no_anchor
            THEN extract_sourcecode(Val(content)) \o <<"\n">>
                 \o generate_ial(<<Pair(KeyId, Val(anchor)), Pair(KeyTitle, name)>>) \o <<"\n">>
            ELSE extract_sourcecode(Val(content)) \o <<"\n">>
                 \o generate_ial(<<Pair(KeyTitle, name)>>) \o <<"\n">>
       ELSE extract_sourcecode(Val(content))

HttpPrefix == <<"h", "t", "t", "p">>
BracketsNone == <<"n", "o", "n", "e">>

extract_eref(output, root) ==
    LET brackets == get(root, "brackets") IN
    IF IsNone(brackets) \/ brackets = Some(BracketsNone)
    THEN concat_with_space(output, Val(get(root, "target")))
    ELSE LET target == Val(get(root, "target")) IN
         IF startswith(target, HttpPrefix)
         THEN concat_with_space(output, <<"<">> \o target \o <<">">>)
         ELSE concat_with_space(output, <<"&", "l", "t", ";">> \o target \o <<"&", "g", "t", ";">>)

\* align_dash with the cases for left and right exchanged
align_dash_mirrored(th) ==
    LET align == get(th, "align") IN
    IF IsNone(align) THEN <<"-">>
    ELSE IF align = Some(<<"r", "i", "g", "h", "t">>) THEN <<":", "-">>
    ELSE IF align = Some(<<"c", "e", "n", "t", "e", "r">>) THEN <<":", "-", ":">>
    ELSE <<"-", ":">>

\* the alignment cell of a header cell
align_dash(th) ==
    LET align == get(th, "align") IN
    IF IsNone(align) THEN <<"-">>
    ELSE IF align = Some(<<"l", "e", "f", "t">>) THEN <<":", "-">>
    ELSE IF align = Some(<<"c", "e", "n", "t", "e", "r">>) THEN <<":", "-", ":">>
    ELSE <<"-", ":">>

RECURSIVE align_row(_)
align_row(ths) ==
    IF ths = <<>> THEN <<>>
    ELSE <<"|">> \o align_dash(Head(ths)) \o <<" ">> \o align_row(Tail(ths))

ReservedSlugs ==
    {<<"n", "a", "m", "e", "-", "a", "u", "t", "h", "o", "r", "s", "-",
       "a", "d", "d", "r", "e", "s", "s", "e", "s">>,
     <<"n", "a", "m", "e", "-", "a", "u", "t", "h", "o", "r", "s", "-",
       "a", "d", "d", "r", "e", "s", "s">>,
     <<"n", "a", "m", "e", "-", "c", "o", "n", "t", "r", "i", "b", "u", "t", "o", "r", "s">>}

QuoteTag == <<"{", ":", "q", "u", "o", "t", "e", "}", "\n", ">", " ">>
AsideTag == <<"{", ":", "a", "s", "i", "d", "e", "}", "\n", ">", " ">>
SectionAnchorPrefix == <<"s", "e", "c", "t", "i", "o", "n", "-">>
ListIndent == <<" ", " ", " ", " ">>

\* the grave accent, which a TLA+ string cannot hold
Backtick == "U+0060"

\* the slug of a section's name, None when it has no name or its name no slug
section_slug(elem) ==
    LET name_el == find(elem, "name") IN
    IF ~IsNone(name_el) THEN get(Val(name_el), "slugifiedName") ELSE None

\* the test of xmlrfc2md.py:275-276 with the skip dropped: every section is rendered
section_is_rendered_always(elem) == TRUE

\* xmlrfc2md.py:275-276
section_is_rendered(elem) ==
    LET name == section_slug(elem) IN
    IsNone(name) \/ Val(name) \notin ReservedSlugs

RECURSIVE extract_sections(_, _, _, _, _)
RECURSIVE extract_kids(_, _, _, _, _, _, _)
RECURSIVE extract_elem(_, _, _, _, _)
RECURSIVE extract_list(_, _, _, _)
RECURSIVE extract_list_kids(_, _, _, _, _, _, _)
RECURSIVE extract_table(_)
RECURSIVE extract_cells(_)
RECURSIVE extract_rows(_)

\* one pass of the loop of extract_sections for the child elem, before its tail
extract_elem(output, elem, section_level, list_level, list_type) ==
    LET sub(lt) == extract_sections(elem, section_level, list_level, lt, FALSE)
        anchor == get(elem, "anchor")
        tag == elem.tag
    IN
    IF tag = "t"
    THEN (IF ~IsNone(anchor) /\ ~startswith(Val(anchor), SectionAnchorPrefix)
          THEN output \o generate_ial(<<Pair(KeyId, Val(anchor))>>) \o <<"\n">>
          ELSE output)
         \o sub(Lists_NoType) \o <<"\n">>
    ELSE IF tag = "blockquote"
    THEN output \o QuoteTag \o lstrip(sub(Lists_NoType)) \o <<"\n">>
    ELSE IF tag = "aside"
    THEN output \o AsideTag \o lstrip(sub(Lists_NoType)) \o <<"\n">>
    ELSE IF tag = "eref"
    THEN extract_eref(output, elem)
    ELSE IF tag = "li"
    THEN (IF ~IsNone(anchor)
          THEN output \o generate_ial(<<Pair(KeyId, Val(anchor))>>) \o <<"\n">>
          ELSE output)
         \o extract_list(elem, section_level, list_level + 1, list_type) \o <<"\n">>
    ELSE IF tag = "section"
    THEN LET numbered == get(elem, "numbered")
             ials == IF ~IsNone(numbered) THEN <<Pair(KeyNumbered, Val(numbered))>> ELSE <<>>
         IN IF section_is_rendered(elem)
            THEN output \o section_title(elem, section_level + 1) \o generate_ial(ials)
                 \o extract_sections(elem, section_level + 1, 0, Lists_NoType, FALSE)
                 \o <<"\n">>
            ELSE output
    ELSE IF tag = "ul" THEN output \o sub(Lists_Unordered)
    ELSE IF tag = "ol" THEN output \o sub(Lists_Ordered)
    ELSE IF tag = "dl"
    THEN LET indent == get(elem, "indent")
             ial == IF IsNone(indent) THEN <<>>
                    ELSE <<"\n">> \o generate_ial(<<Pair(KeyIndent, Val(indent))>>)
         IN output \o ial \o sub(Lists_Definition)
    ELSE IF tag = "dt"
    THEN IF ~IsNone(anchor)
         THEN output \o <<"\n">> \o generate_ial(<<Pair(KeyId, Val(anchor))>>)
              \o sub(Lists_Definition)
         ELSE output \o <<"\n">> \o sub(Lists_Definition)
    ELSE IF tag = "dd" THEN output \o <<":", " ">> \o lstrip(sub(Lists_NoType))
    ELSE IF tag = "xref" THEN concat_with_space(output, extract_xref(elem))
    ELSE IF tag = "displayreference" THEN output
    ELSE IF tag = "bcp14" THEN concat_with_space(output, Val(elem.text))
    ELSE IF tag = "tt" THEN concat_with_space(output, <<Backtick>> \o Val(elem.text) \o <<Backtick>>)
    ELSE IF tag \in {"emph", "em"}
    THEN concat_with_space(output, <<"*">> \o Val(elem.text) \o <<"*">>)
    ELSE IF tag = "strong"
    THEN concat_with_space(output, <<"*", "*">> \o Val(elem.text) \o <<"*", "*">>)
    ELSE IF tag = "br" THEN output \o <<"\n">>
    ELSE IF tag = "sup"
    THEN output \o <<"<", "s", "u", "p", ">">> \o Val(elem.text) \o <<"<", "/", "s", "u", "p", ">">>
    ELSE IF tag = "contact" THEN output \o <<" ">> \o Val(get(elem, "fullname"))
    ELSE IF tag \in {"name", "references", "author"} THEN output
    ELSE IF tag \in {"sourcecode", "artwork"} THEN output \o extract_sourcecode(elem)
    ELSE IF tag = "figure" THEN output \o extract_figure(elem)
    ELSE IF tag = "table" THEN output \o extract_table(elem)
    ELSE output

\* the loop of extract_sections from child i on
extract_kids(kids, i, output, section_level, list_level, list_type, span) ==
    IF i > Len(kids) THEN output
    ELSE LET elem == kids[i]
             o1 == extract_elem(output, elem, section_level, list_level, list_type)
             o2 == IF ~IsNone(elem.tail)
                   THEN o1 \o collapse_spaces(simple_escape(Val(elem.tail)), span)
                   ELSE o1
         IN extract_kids(kids, i + 1, o2, section_level, list_level, list_type, span)

extract_sections(root, section_level, list_level, list_type, span) ==
    extract_kids(root.kids, 1,
                 IF ~IsNone(root.text) THEN collapse_spaces(simple_escape(Val(root.text)), span)
                 ELSE <<>>,
                 section_level, list_level, list_type, span)

list_marker(list_type) ==
    IF list_type = Lists_NoType THEN <<>>
    ELSE IF list_type = Lists_Unordered THEN <<"*", " ">>
    ELSE <<"1", ".", " ">>

\* the loop of extract_list over the children of a multi-paragraph item
extract_list_kids(kids, i, output, is_first, pre, section_level, list_level) ==
    IF i > Len(kids) THEN output
    ELSE LET elem == kids[i]
             body == extract_sections(elem, section_level, list_level, Lists_NoType, FALSE)
         IN IF elem.tag = "t"
            THEN IF is_first
                 THEN extract_list_kids(kids, i + 1, output \o pre \o lstrip(body) \o <<"\n">>,
                                        FALSE, pre, section_level, list_level)
                 ELSE extract_list_kids(kids, i + 1, output \o ListIndent \o body \o <<"\n">>,
                                        is_first, pre, section_level, list_level)
            ELSE extract_list_kids(kids, i + 1, output \o body \o <<"\n">>,
                                   is_first, pre, section_level, list_level)

\* ts is the first <t> of the item; len(ts) is the number of child elements of that <t>
\* an extract_list that indents an item by its depth
extract_list_by_depth(root, section_level, list_level, list_type) ==
    repeat(ListIndent, list_level - 1) \o list_marker(list_type)
    \o lstrip(extract_sections(root, section_level, list_level, Lists_NoType, FALSE))

extract_list(root, section_level, list_level, list_type) ==
    LET pre == list_marker(list_type)
        ts == find(root, "t")
    IN IF IsNone(ts) \/ Len(Val(ts).kids) = 0
       THEN pre \o lstrip(extract_sections(root, section_level, list_level, Lists_NoType, FALSE))
       ELSE extract_list_kids(root.kids, 1, <<>>, TRUE, pre, section_level, list_level)

extract_cells(cells) ==
    IF cells = <<>> THEN <<>>
    ELSE <<"|">> \o extract_sections(Head(cells), 0, 0, Lists_NoType, TRUE)
         \o extract_cells(Tail(cells))

extract_rows(trs) ==
    IF trs = <<>> THEN <<>>
    ELSE extract_cells(findall(Head(trs), "td")) \o <<"\n">> \o extract_rows(Tail(trs))

extract_table(root) ==
    LET anchor == get(root, "anchor")
        thead == find(root, "thead")
        tr == IF IsNone(thead) THEN None ELSE find(Val(thead), "tr")
        ths == findall(Val(tr), "th")
        head == IF IsNone(thead) THEN <<"\n">>
                ELSE <<"\n">> \o extract_cells(ths) \o <<"\n">> \o align_row(ths) \o <<"\n">>
        tbody == find(root, "tbody")
        trs == findall(Val(tbody), "tr")
        content == head \o extract_rows(trs)
        name_el == find(root, "name")
    IN IF ~IsNone(thead) /\ IsNone(tr) THEN <<>>
       ELSE IF IsNone(tbody) THEN <<>>
       ELSE IF Len(trs) = 0 THEN <<>>
       ELSE IF ~IsNone(name_el)
       THEN LET name == escape_title(Val(Val(name_el).text)) IN
            IF ~IsNone(anchor)
            THEN content \o generate_ial(<<Pair(KeyId, Val(anchor)), Pair(KeyTitle, name)>>)
                 \o <<"\n">>
            ELSE content \o generate_ial(<<Pair(KeyTitle, name)>>) \o <<"\n">>
       ELSE content

(***************************************************************************)
(* Lists: items of one to MaxParagraphs paragraphs                         *)
(***************************************************************************)
MaxParagraphs == 3

Leaf(tag, txt, tail) == Element(tag, NoAttrib, txt, <<>>, tail)

\* a paragraph of plain text, one that ends in an inline element, one that
\* starts with one, and one of plain text with an anchor
PlainParagraph == Element("t", NoAttrib, Some(<<"a">>), <<>>, None)
EmphParagraph ==
    Element("t", NoAttrib, Some(<<"b">>), <<Leaf("em", Some(<<"x">>), Some(<<" ", "c">>))>>, None)
KeywordParagraph ==
    Element("t", NoAttrib, None, <<Leaf("bcp14", Some(<<"M", "U", "S", "T">>), Some(<<" ", "d">>))>>,
            None)

Paragraphs == {PlainParagraph, EmphParagraph, KeywordParagraph}

\* what extract_sections gives for the body of each paragraph
ParagraphText(p) ==
    IF p = PlainParagraph THEN <<"a">>
    ELSE IF p = EmphParagraph THEN <<"b", " ", "*", "x", "*", " ", "c">>
    ELSE <<"M", "U", "S", "T", " ", "d">>

ListItems ==
    {Element("li", NoAttrib, None, ps, None) :
        ps \in UNION {[1..n -> Paragraphs] : n \in 1..MaxParagraphs}}

InitList ==
    /\ pc = "ready"
    /\ op = "none"
    /\ arg \in [item : ListItems, list_type : {Lists_Unordered, Lists_Ordered}]
    /\ ret = <<>>
    /\ log = <<>>
    /\ outfile = None

CallExtractList ==
    /\ pc = "ready"
    /\ pc' = "done"
    /\ op' = "extract_list"
    /\ ret' = extract_list(arg.item, 0, 1, arg.list_type)
    /\ UNCHANGED <<arg, log, outfile>>

\* the item as the second item of a list in a section body
CallExtractSectionsOnList ==
    /\ pc = "ready"
    /\ pc' = "done"
    /\ op' = "extract_sections"
    /\ ret' = extract_sections(
                 Element("section", NoAttrib, None,
                         <<Element(IF arg.list_type = Lists_Unordered THEN "ul" ELSE "ol",
                                   NoAttrib, None,
                                   <<Element("li", NoAttrib, Some(<<"z">>), <<>>, None), arg.item>>,
                                   None)>>,
                         None),
                 1, 0, Lists_NoType, FALSE)
    /\ UNCHANGED <<arg, log, outfile>>

NextList == CallExtractList \/ CallExtractSectionsOnList

SpecList == InitList /\ [][NextList]_vars

Marker(list_type) == IF list_type = Lists_Unordered THEN <<"*", " ">> ELSE <<"1", ".", " ">>

\* the lines the claim gives for an item: the marker and the first paragraph,
\* then every later paragraph after four spaces
RECURSIVE IndentedParagraphs(_)
IndentedParagraphs(ps) ==
    IF ps = <<>> THEN <<>>
    ELSE <<" ", " ", " ", " ">> \o ParagraphText(Head(ps)) \o <<"\n">>
         \o IndentedParagraphs(Tail(ps))

LooseItem(item, list_type) ==
    Marker(list_type) \o ParagraphText(Head(item.kids)) \o <<"\n">>
    \o IndentedParagraphs(Tail(item.kids))

\* C5: for every list item of more than one paragraph, the first paragraph
\* follows the marker and every later paragraph is on its own line, indented
\* by exactly four spaces, whatever inline content the paragraphs have
\* (a first paragraph of plain text only included).
C5_LooseItemIndented ==
    (pc = "done" /\ Len(arg.item.kids) > 1) =>
        /\ op = "extract_list" => ret = LooseItem(arg.item, arg.list_type)
        /\ op = "extract_sections" =>
             ret = Marker(arg.list_type) \o <<"z", "\n">>
                   \o LooseItem(arg.item, arg.list_type) \o <<"\n">>

\* what holds of the code: the claim's rendering when the first paragraph of
\* the item has a child element
C5_LooseItemWhenFirstHasChild ==
    (pc = "done" /\ op = "extract_list" /\ Len(arg.item.kids) > 1
       /\ Len(Head(arg.item.kids).kids) > 0) =>
        ret = LooseItem(arg.item, arg.list_type)

(***************************************************************************)
(* Tables: a header row of up to MaxColumns cells and up to MaxRows rows   *)
(***************************************************************************)
MaxColumns == 2
MaxRows == 2

AlignLeft == <<"l", "e", "f", "t">>
AlignCenter == <<"c", "e", "n", "t", "e", "r">>
AlignRight == <<"r", "i", "g", "h", "t">>

Aligns == {None, Some(AlignLeft), Some(AlignCenter), Some(AlignRight)}

\* the text of the header cell of column c
HeaderText(c) == <<<<"A">>, <<"B", " ", "c">>, <<"D">>, <<"E">>>>[c]

\* the text of the body cell of row r and column c
BodyText(r, c) ==
    IF r = 1 /\ c = 1 THEN <<"1">>
    ELSE <<<<"1">>, <<"2">>, <<"3">>, <<"4">>>>[r] \o <<" ">> \o <<<<"x">>, <<"y">>, <<"z">>, <<"w">>>>[c]

HeaderCell(c, align) == Element("th", Attr("align", align), Some(HeaderText(c)), <<>>, None)

BodyCell(txt) == Element("td", NoAttrib, Some(txt), <<>>, None)

HeaderRow(aligns) ==
    Element("tr", NoAttrib, None, [c \in DOMAIN aligns |-> HeaderCell(c, aligns[c])], None)

BodyRow(r, n) == Element("tr", NoAttrib, None, [c \in 1..n |-> BodyCell(BodyText(r, c))], None)

TableName == Element("name", NoAttrib, Some(<<"T">>), <<>>, None)

\* a table with a header row of Len(aligns) cells and m body rows of as many cells
Table(anchor, names, aligns, m) ==
    Element("table", Attr("anchor", anchor), None,
            names \o <<Element("thead", NoAttrib, None, <<HeaderRow(aligns)>>, None),
                       Element("tbody", NoAttrib, None,
                               [r \in 1..m |-> BodyRow(r, Len(aligns))], None)>>,
            None)

InitTable ==
    /\ pc = "ready"
    /\ op = "none"
    /\ \E n \in 0..MaxColumns, m \in 1..MaxRows :
         \E aligns \in [1..n -> Aligns], anchor \in {None, Some(<<"t", "1">>)},
            names \in {<<>>, <<TableName>>} :
            arg = Table(anchor, names, aligns, m)
    /\ ret = <<>>
    /\ log = <<>>
    /\ outfile = None

CallExtractTable ==
    /\ pc = "ready"
    /\ pc' = "done"
    /\ op' = "extract_table"
    /\ ret' = extract_table(arg)
    /\ UNCHANGED <<arg, log, outfile>>

\* the table as a child of a section body
CallExtractSectionsOnTable ==
    /\ pc = "ready"
    /\ pc' = "done"
    /\ op' = "extract_sections"
    /\ ret' = extract_sections(Element("section", NoAttrib, None, <<arg>>, None),
                               1, 0, Lists_NoType, FALSE)
    /\ UNCHANGED <<arg, log, outfile>>

NextTable == CallExtractTable \/ CallExtractSectionsOnTable

SpecTable == InitTable /\ [][NextTable]_vars

\* the alignment cell the claim gives
ClaimedDash(align) ==
    IF align = None THEN <<"-">>
    ELSE IF align = Some(AlignLeft) THEN <<":", "-">>
    ELSE IF align = Some(AlignCenter) THEN <<":", "-", ":">>
    ELSE <<"-", ":">>

RECURSIVE BarCells(_)
BarCells(cells) ==
    IF cells = <<>> THEN <<>>
    ELSE <<"|">> \o Val(Head(cells).text) \o BarCells(Tail(cells))

RECURSIVE BarDashes(_)
BarDashes(cells) ==
    IF cells = <<>> THEN <<>>
    ELSE <<"|">> \o ClaimedDash(get(Head(cells), "align")) \o <<" ">> \o BarDashes(Tail(cells))

RECURSIVE BodyLines(_)
BodyLines(rows) ==
    IF rows = <<>> THEN <<>>
    ELSE <<BarCells(Head(rows).kids)>> \o BodyLines(Tail(rows))

\* the lines of the claim: the header line, the alignment line, one line per body row
ClaimedLines(table) ==
    LET ths == Val(find(Val(find(table, "thead")), "tr")).kids
        trs == Val(find(table, "tbody")).kids
    IN <<BarCells(ths), BarDashes(ths)>> \o BodyLines(trs)

\* the text before the trailing attribute block of a table that has a name
BeforeCaption(table, out) ==
    IF IsNone(find(table, "name")) THEN out
    ELSE SubSeq(out, 1, Len(out) - Len(SplitOnBreaks(out)[Len(SplitOnBreaks(out)) - 1]) - 1)

TableA1 == Table(None, <<>>, <<None>>, 1)

\* C6: for a table with a header row of n cells and m >= 1 body rows,
\* extract_table renders, in this order, one header line with each header cell
\* after "|", one alignment line with "|" and "-", ":-", ":-:" or "-:" (and a
\* space) per header cell for align absent, left, center or right, then one
\* line per body row with each cell after "|"; header "A" (no align) and one
\* row "1" give the lines "|A", "|- ", "|1".
C6_TableLines ==
    (pc = "done" /\ op = "extract_table") =>
        /\ BeforeCaption(arg, ret) = <<"\n">> \o join(<<"\n">>, ClaimedLines(arg)) \o <<"\n">>
        /\ arg = TableA1 => ret = <<"\n", "|", "A", "\n", "|", "-", " ", "\n", "|", "1", "\n">>

C6_Witness ==
    /\ pc = "done"
    /\ op = "extract_table"
    /\ arg = TableA1
    /\ SplitOnBreaks(ret) = <<<<>>, <<"|", "A">>, <<"|", "-", " ">>, <<"|", "1">>, <<>>>>

(***************************************************************************)
(* xml2md.py: the earlier copy of the content extractor                    *)
(***************************************************************************)
\* raises when the section has no anchor; the name is not stripped
section_title_xml2md(elem, level) ==
    LET anchor == <<"{", "#">> \o Val(get(elem, "anchor")) \o <<"}">>
        name == find(elem, "name")
    IN IF IsNone(name) THEN <<>>
       ELSE <<"\n">> \o repeat(<<"#">>, level) \o <<" ">> \o Val(Val(name).text)
            \o <<" ">> \o anchor \o <<"\n">>

RECURSIVE extract_sections_xml2md(_, _, _)
RECURSIVE extract_kids_xml2md(_, _, _, _, _)

extract_kids_xml2md(kids, i, output, level, bulleted) ==
    IF i > Len(kids) THEN output
    ELSE LET elem == kids[i]
             tag == elem.tag
             o1 == IF tag = "t"
                   THEN output \o extract_sections_xml2md(elem, level, FALSE) \o <<"\n">>
                   ELSE IF tag = "li"
                   THEN output \o (IF bulleted THEN <<"*", " ">> ELSE <<>>)
                        \o extract_sections_xml2md(elem, level, FALSE) \o <<"\n">>
                   ELSE IF tag = "section"
                   THEN output \o section_title_xml2md(elem, level + 1)
                        \o extract_sections_xml2md(elem, level + 1, FALSE) \o <<"\n">>
                   ELSE IF tag = "ul"
                   THEN output \o extract_sections_xml2md(elem, level, TRUE)
                   ELSE IF tag = "xref" THEN output \o extract_xref_xml2md(elem)
                   ELSE IF tag = "bcp14" THEN output \o Val(elem.text)
                   ELSE output
             o2 == IF ~IsNone(elem.tail) THEN o1 \o collapse_spaces_xml2md(Val(elem.tail)) ELSE o1
         IN extract_kids_xml2md(kids, i + 1, o2, level, bulleted)

extract_sections_xml2md(root, level, bulleted) ==
    extract_kids_xml2md(root.kids, 1,
                        IF ~IsNone(root.text) THEN collapse_spaces_xml2md(Val(root.text)) ELSE <<>>,
                        level, bulleted)

(***************************************************************************)
(* Sections: a chain of nested sections under the body or the back-matter  *)
(***************************************************************************)
MaxSectionDepth == 3

SlugIntroduction ==
    <<"n", "a", "m", "e", "-", "i", "n", "t", "r", "o", "d", "u", "c", "t", "i", "o", "n">>

\* no slugifiedName, an ordinary slug, or one of the reserved slugs
Slugs == {None, Some(SlugIntroduction)} \cup {Some(r) : r \in ReservedSlugs}

\* the title and the paragraph text of the section at depth d
TitleChar(d) == <<"A", "B", "C", "D", "E">>[d]
BodyChar(d) == <<"a", "b", "c", "d", "e">>[d]
AnchorOf(d) == <<"s", <<"1", "2", "3", "4", "5">>[d]>>

\* the section at depth d, which holds a paragraph and the section at depth d+1
RECURSIVE SectionChain(_, _)
SectionChain(slugs, d) ==
    Element("section", Attr("anchor", Some(AnchorOf(d))), None,
            <<Element("name", Attr("slugifiedName", slugs[d]), Some(<<TitleChar(d)>>), <<>>, None),
              Element("t", NoAttrib, Some(<<BodyChar(d)>>), <<>>, None)>>
            \o (IF d < Len(slugs) THEN <<SectionChain(slugs, d + 1)>> ELSE <<>>),
            Some(<<"+">>))

InitSections ==
    /\ pc = "ready"
    /\ op = "none"
    /\ \E n \in 1..MaxSectionDepth, zone \in {"middle", "back"} :
         \E slugs \in [1..n -> Slugs] :
            arg = [slugs |-> slugs,
                   root |-> Element(zone, NoAttrib, None, <<SectionChain(slugs, 1)>>, None)]
    /\ ret = <<>>
    /\ log = <<>>
    /\ outfile = None

\* parse_rfc's call over the body or the back-matter
CallExtractSections ==
    /\ pc = "ready"
    /\ pc' = "done"
    /\ op' = "extract_sections"
    /\ ret' = extract_sections(arg.root, 0, 0, Lists_NoType, FALSE)
    /\ UNCHANGED <<arg, log, outfile>>

CallExtractSectionsXml2md ==
    /\ pc = "ready"
    /\ pc' = "done"
    /\ op' = "extract_sections_xml2md"
    /\ ret' = extract_sections_xml2md(arg.root, 0, FALSE)
    /\ UNCHANGED <<arg, log, outfile>>

NextSections == CallExtractSections \/ CallExtractSectionsXml2md

SpecSections == InitSections /\ [][NextSections]_vars

Contains(t, sub) ==
    \E i \in 1..(Len(t) - Len(sub) + 1) : SubSeq(t, i, i + Len(sub) - 1) = sub

Chars(t) == {t[i] : i \in DOMAIN t}

IsReserved(slug) == ~IsNone(slug) /\ Val(slug) \in ReservedSlugs

\* the section at depth d lies in no reserved section and is not one itself
OutsideReserved(slugs, d) == \A e \in 1..d : ~IsReserved(slugs[e])

HeadingLine(d) ==
    <<"\n">> \o repeat(<<"#">>, d) \o <<" ", TitleChar(d), " ", "{", "#">> \o AnchorOf(d)
    \o <<"}", "\n">>

\* the heading of the section at depth d and its paragraph are in the output
Rendered(out, d) == Contains(out, HeadingLine(d) \o <<BodyChar(d), "\n">>)

\* neither the title nor the text of the section at depth d is in the output
Omitted(out, d) == TitleChar(d) \notin Chars(out) /\ BodyChar(d) \notin Chars(out)

\* C7 as stated, of the extract_sections of both copies: a section with a
\* reserved slug is omitted with its whole subtree, at any depth, and every
\* other section is rendered with its heading and body.
C7_AsStated ==
    (pc = "done" /\ op \in {"extract_sections", "extract_sections_xml2md"}) =>
        \A d \in DOMAIN arg.slugs :
            IF OutsideReserved(arg.slugs, d) THEN Rendered(ret, d) ELSE Omitted(ret, d)

\* C7 (amended): xmlrfc2md.py omits a section with a reserved slug with its
\* whole subtree, at any depth of the body or the back-matter, and renders
\* every other section with its heading and body; xml2md.py has no such rule
\* and renders every section, the reserved ones included.
C7_ReservedSectionsOmitted ==
    pc = "done" =>
        \A d \in DOMAIN arg.slugs :
            /\ op = "extract_sections" =>
                 IF OutsideReserved(arg.slugs, d) THEN Rendered(ret, d) ELSE Omitted(ret, d)
            /\ op = "extract_sections_xml2md" => Rendered(ret, d)

\* a contributors section with content, nested in a rendered section, is left out
C7_Witness ==
    /\ pc = "done"
    /\ op = "extract_sections"
    /\ Len(arg.slugs) >= 2
    /\ ~IsReserved(arg.slugs[1])
    /\ arg.slugs[2] =
         Some(<<"n", "a", "m", "e", "-", "c", "o", "n", "t", "r", "i", "b", "u", "t", "o", "r", "s">>)
    /\ Rendered(ret, 1)
    /\ Omitted(ret, 2)

(***************************************************************************)
(* The preamble extractor: Python values handed to the YAML serializer     *)
(***************************************************************************)
PyNone == [py |-> "None"]
IsPyNone(value) == value.py = "None"
PyStr(t) == [py |-> "str", v |-> t]
PyBool(b) == [py |-> "bool", v |-> b]
PyList(items) == [py |-> "list", v |-> items]
PyDict(d) == [py |-> "dict", v |-> d]

\* Element.text as a Python value
PyText(o) == IF IsNone(o) THEN PyNone ELSE PyStr(Val(o))

EmptyDict == [k \in {} |-> PyNone]

\* d[key] = value
SetItem(d, key, value) == (key :> value) @@ d

conditional_add(m, key, value) ==
    IF ~IsPyNone(value) THEN SetItem(m, key, value) ELSE m

safe_text(e) == IF IsNone(e) THEN PyNone ELSE PyText(Val(e).text)

Digits == {"0", "1", "2", "3", "4", "5", "6", "7", "8", "9"}

\* re.fullmatch("rfc[0-9]+", s, re.IGNORECASE)
matches_rfc(s) ==
    /\ Len(s) >= 4
    /\ s[1] \in {"r", "R"}
    /\ s[2] \in {"f", "F"}
    /\ s[3] \in {"c", "C"}
    /\ \A i \in 4..Len(s) : s[i] \in Digits

\* Element.findall / find with a path "./t1/t2/...": the matches in document order
RECURSIVE findall_path(_, _)
findall_path(elems, path) ==
    IF path = <<>> THEN elems
    ELSE LET RECURSIVE step(_)
             step(es) == IF es = <<>> THEN <<>>
                         ELSE findall(Head(es), Head(path)) \o step(Tail(es))
         IN findall_path(step(elems), Tail(path))

find_path(elem, path) ==
    LET found == findall_path(<<elem>>, path) IN
    IF found = <<>> THEN None ELSE Some(Head(found))

\* one pass of the loop of convert_authors
convert_author(a) ==
    LET initials == get(a, "initials")
        surname == get(a, "surname")
        name == get(a, "fullname")
        org_el == find(a, "organization")
        uri_el == find_path(a, <<"address", "uri">>)
        email_el == find_path(a, <<"address", "email">>)
        phone_el == find_path(a, <<"address", "phone">>)
        postal_el == find_path(a, <<"address", "postal">>)
        p1 == IF ~IsNone(initials) /\ ~IsNone(surname)
              THEN SetItem(EmptyDict, "ins", PyStr(Val(initials) \o <<" ">> \o Val(surname)))
              ELSE EmptyDict
        p2 == IF ~IsNone(name) THEN SetItem(p1, "name", PyStr(Val(name))) ELSE p1
        p3 == IF ~IsNone(org_el) /\ ~IsNone(Val(org_el).text) /\ Val(Val(org_el).text) # <<>>
              THEN SetItem(p2, "organization", PyStr(Val(Val(org_el).text)))
              ELSE p2
        p4 == IF ~IsNone(uri_el) THEN SetItem(p3, "uri", PyText(Val(uri_el).text)) ELSE p3
        p5 == IF ~IsNone(email_el) THEN SetItem(p4, "email", PyText(Val(email_el).text)) ELSE p4
        p6 == IF ~IsNone(phone_el) THEN SetItem(p5, "phone", PyText(Val(phone_el).text)) ELSE p5
    IN IF ~IsNone(postal_el)
       THEN LET postal == Val(postal_el) IN
            conditional_add(
              conditional_add(
                conditional_add(
                  conditional_add(
                    conditional_add(p6, "street", safe_text(find(postal, "street"))),
                    "city", safe_text(find(postal, "city"))),
                  "region", safe_text(find(postal, "region"))),
                "code", safe_text(find(postal, "code"))),
              "country", safe_text(find(postal, "country")))
       ELSE p6

RECURSIVE convert_author_list(_)
convert_author_list(as) ==
    IF as = <<>> THEN <<>>
    ELSE <<PyDict(convert_author(Head(as)))>> \o convert_author_list(Tail(as))

convert_authors(front, tag_name) == PyList(convert_author_list(findall(front, tag_name)))

RECURSIVE series_info_of(_, _)
series_info_of(sis, seriesinfo) ==
    IF sis = <<>> THEN seriesinfo
    ELSE LET name == get(Head(sis), "name")
             value == get(Head(sis), "value")
         IN IF IsNone(name) \/ IsNone(value)
            THEN series_info_of(Tail(sis), seriesinfo)
            ELSE series_info_of(Tail(sis), SetItem(seriesinfo, Val(name), PyStr(Val(value))))

convert_series_info(front) ==
    LET seriesinfo == series_info_of(findall(front, "seriesInfo"), EmptyDict) IN
    IF Cardinality(DOMAIN seriesinfo) > 0 THEN PyDict(seriesinfo) ELSE PyNone

\* find_references: the blocks looked at, then the first whose name has the slug
reference_blocks(rfc) ==
    LET block_list == findall_path(<<rfc>>, <<"back", "references", "references">>) IN
    IF Len(block_list) = 0 THEN findall_path(<<rfc>>, <<"back", "references">>) ELSE block_list

ReferencesSlug(ref_type) ==
    <<"n", "a", "m", "e", "-">> \o ref_type
    \o <<"-", "r", "e", "f", "e", "r", "e", "n", "c", "e", "s">>

RECURSIVE first_block(_, _)
first_block(blocks, ref_type) ==
    IF blocks = <<>> THEN None
    ELSE LET name_el == find(Head(blocks), "name") IN
         IF IsNone(name_el) THEN first_block(Tail(blocks), ref_type)
         ELSE IF get(Val(name_el), "slugifiedName") = Some(ReferencesSlug(ref_type))
         THEN Some(Head(blocks))
         ELSE first_block(Tail(blocks), ref_type)

find_references(rfc, ref_type) == first_block(reference_blocks(rfc), ref_type)

\* events of a run, in the order the code produces them: the logging records,
\* a call of throttle, and what ends the run: an uncaught exception (TypeError
\* or AttributeError on a None) or sys.exit
Raised(name) == [level |-> "RAISE", msg |-> name]
Throttled(msg_type) == [level |-> "THROTTLE", msg |-> msg_type]

IsRaise(e) == e.level = "RAISE"

\* the events up to and including the first exception
RECURSIVE until_raise(_)
until_raise(events) ==
    IF events = <<>> THEN <<>>
    ELSE IF IsRaise(Head(events)) THEN <<Head(events)>>
    ELSE <<Head(events)>> \o until_raise(Tail(events))

raises(events) == \E i \in DOMAIN events : IsRaise(events[i])

NoMessages == [t \in {} |-> 0]

\* a throttle that warns at every call
throttle_logs_every_call(messages, msg_type) == TRUE

\* throttle(msg_type, msg): whether the call logs, and the counters after it
throttle_logs(messages, msg_type) ==
    msg_type \notin DOMAIN messages \/ messages[msg_type] = 0

throttle(messages, msg_type) ==
    [t \in DOMAIN messages \cup {msg_type} |->
        IF t = msg_type
        THEN (IF msg_type \in DOMAIN messages THEN messages[msg_type] ELSE 0) + 1
        ELSE messages[t]]

\* the calls of throttle of a run replaced by what they log
RECURSIVE throttle_events(_, _)
throttle_events(events, messages) ==
    IF events = <<>> THEN <<>>
    ELSE LET e == Head(events) IN
         IF e.level = "THROTTLE"
         THEN (IF throttle_logs(messages, e.msg)
               THEN <<LogRecord("WARNING", "language tag for source code may be incorrect")>>
               ELSE <<>>)
              \o throttle_events(Tail(events), throttle(messages, e.msg))
         ELSE <<e>> \o throttle_events(Tail(events), messages)

\* what logging has received when the run ends or is ended by an exception
logged(events) ==
    SelectSeq(throttle_events(until_raise(events), NoMessages), LAMBDA e : ~IsRaise(e))

\* full_ref, lines 568-574: target and refcontent
full_ref_head(ref) ==
    LET target == get(ref, "target")
        o1 == IF ~IsNone(target) THEN SetItem(EmptyDict, "target", PyStr(Val(target)))
              ELSE EmptyDict
        refcontent_el == find(ref, "refcontent")
    IN IF ~IsNone(refcontent_el) /\ ~IsNone(Val(refcontent_el).text)
       THEN SetItem(o1, "refcontent", PyStr(Val(Val(refcontent_el).text)))
       ELSE o1

\* full_ref with the two early returns dropped: a record whatever the reference holds
full_ref_lenient(ref) == PyDict(full_ref_head(ref))

full_ref(ref) ==
    LET front == find(ref, "front") IN
    IF IsNone(front) THEN PyNone
    ELSE LET title_el == find(Val(front), "title") IN
         IF IsNone(title_el) THEN PyNone
         ELSE LET o3 == SetItem(full_ref_head(ref), "title", PyText(Val(title_el).text))
                  date_el == find(Val(front), "date")
                  month == IF IsNone(date_el) THEN None ELSE get(Val(date_el), "month")
                  year == IF IsNone(date_el) THEN None ELSE get(Val(date_el), "year")
                  date == IF IsNone(date_el) THEN PyBool(FALSE)
                          ELSE IF ~IsNone(month) /\ Val(month) # <<>>
                          THEN PyStr(Val(month) \o <<" ">> \o Val(year))
                          ELSE IF IsNone(year) THEN PyNone ELSE PyStr(Val(year))
                  o4 == SetItem(o3, "date", date)
                  o5 == SetItem(o4, "author", convert_authors(Val(front), "author"))
                  seriesinfo == convert_series_info(Val(front))
              IN PyDict(IF ~IsPyNone(seriesinfo) THEN SetItem(o5, "seriesinfo", seriesinfo)
                        ELSE o5)

RECURSIVE series_info_events(_)
series_info_events(sis) ==
    IF sis = <<>> THEN <<>>
    ELSE (IF IsNone(get(Head(sis), "name")) \/ IsNone(get(Head(sis), "value"))
          THEN <<LogRecord("WARNING", "bad seriesInfo, skipping")>>
          ELSE <<>>)
         \o series_info_events(Tail(sis))

\* line 590 concatenates year to the month: a TypeError when year is None
full_ref_events(ref) ==
    LET front == find(ref, "front") IN
    IF IsNone(front) THEN <<LogRecord("ERROR", "reference with no front")>>
    ELSE LET title_el == find(Val(front), "title")
             date_el == find(Val(front), "date")
         IN IF IsNone(title_el) THEN <<LogRecord("ERROR", "reference with no title")>>
            ELSE IF /\ ~IsNone(date_el)
                    /\ get(Val(date_el), "month") \notin {None, Some(<<>>)}
                    /\ IsNone(get(Val(date_el), "year"))
            THEN <<Raised("Exception")>>
            ELSE series_info_events(findall(Val(front), "seriesInfo"))

DoiPrefix ==
    <<"h", "t", "t", "p", "s", ":", "/", "/", "d", "o", "i", ".", "o", "r", "g", "/">>

IDPrefix == <<"I", "-", "D", ".">>
BCPPrefix == <<"B", "C", "P">>
STDPrefix == <<"S", "T", "D">>

\* the anchor test of the reference groups, line 638: BCP and STD only
is_well_known_group(anchor) ==
    startswith(anchor, BCPPrefix) \/ startswith(anchor, STDPrefix)

\* the anchor test with the RFC and I-D. cases dropped
is_well_known_series_only(anchor) ==
    startswith(anchor, BCPPrefix) \/ startswith(anchor, STDPrefix)

\* the anchor test of convert_references, lines 619-620
is_well_known(anchor) ==
    \/ matches_rfc(anchor)
    \/ startswith(anchor, IDPrefix)
    \/ startswith(anchor, BCPPrefix)
    \/ startswith(anchor, STDPrefix)

is_doi(target) == ~IsNone(target) /\ startswith(Val(target), DoiPrefix)

\* one pass of the loop over the <reference> entries, lines 615-630
convert_reference(ref, refs) ==
    LET anchor == get(ref, "anchor")
        target == get(ref, "target")
    IN IF IsNone(anchor) THEN refs
       ELSE IF is_well_known(Val(anchor)) THEN SetItem(refs, Val(anchor), PyNone)
       ELSE IF is_doi(target)
       THEN SetItem(refs, Val(anchor),
                    PyStr(<<"D", "O", "I", ".">> \o removeprefix(Val(target), DoiPrefix)))
       ELSE conditional_add(refs, Val(anchor), full_ref(ref))

\* the loop over the <reference> entries
RECURSIVE convert_reference_list(_, _)
convert_reference_list(ref_list, refs) ==
    IF ref_list = <<>> THEN refs
    ELSE convert_reference_list(Tail(ref_list), convert_reference(Head(ref_list), refs))

RECURSIVE convert_reference_events(_)
convert_reference_events(ref_list) ==
    IF ref_list = <<>> THEN <<>>
    ELSE LET ref == Head(ref_list)
             anchor == get(ref, "anchor")
         IN (IF IsNone(anchor) THEN <<LogRecord("WARNING", "reference missing an anchor")>>
             ELSE IF is_well_known(Val(anchor)) \/ is_doi(get(ref, "target")) THEN <<>>
             ELSE full_ref_events(ref))
            \o convert_reference_events(Tail(ref_list))

\* the loop over the <referencegroup> entries
RECURSIVE convert_group_list(_, _)
convert_group_list(ref_groups, refs) ==
    IF ref_groups = <<>> THEN refs
    ELSE LET anchor == get(Head(ref_groups), "anchor") IN
         convert_group_list(Tail(ref_groups),
             IF ~IsNone(anchor) /\ is_well_known_group(Val(anchor))
             THEN SetItem(refs, Val(anchor), PyNone)
             ELSE refs)

RECURSIVE convert_group_events(_)
convert_group_events(ref_groups) ==
    IF ref_groups = <<>> THEN <<>>
    ELSE LET anchor == get(Head(ref_groups), "anchor") IN
         (IF IsNone(anchor) THEN <<LogRecord("WARNING", "reference missing an anchor")>>
          ELSE IF is_well_known_group(Val(anchor)) THEN <<>>
          ELSE <<LogRecord("WARNING", "unexpected reference group")>>)
         \o convert_group_events(Tail(ref_groups))

\* find_references: one error per block without a name that is looked at
RECURSIVE find_references_events(_, _)
find_references_events(blocks, ref_type) ==
    IF blocks = <<>> THEN <<>>
    ELSE LET name_el == find(Head(blocks), "name") IN
         IF IsNone(name_el)
         THEN <<LogRecord("ERROR", "no name for reference block")>>
              \o find_references_events(Tail(blocks), ref_type)
         ELSE IF get(Val(name_el), "slugifiedName") = Some(ReferencesSlug(ref_type))
         THEN <<>>
         ELSE find_references_events(Tail(blocks), ref_type)

\* None, or the dict of the bibliography entries
convert_references(rfc, ref_type) ==
    LET ref_block == find_references(rfc, ref_type) IN
    IF IsNone(ref_block) THEN PyNone
    ELSE LET ref_list == findall(Val(ref_block), "reference") IN
         IF Len(ref_list) = 0 THEN PyNone
         ELSE PyDict(convert_group_list(findall(Val(ref_block), "referencegroup"),
                                        convert_reference_list(ref_list, EmptyDict)))

convert_references_events(rfc, ref_type) ==
    LET ref_block == find_references(rfc, ref_type)
        found == find_references_events(reference_blocks(rfc), ref_type)
        none == Append(found, LogRecord("WARNING", "no references?"))
    IN IF IsNone(ref_block) THEN none
       ELSE LET ref_list == findall(Val(ref_block), "reference") IN
            IF Len(ref_list) = 0 THEN none
            ELSE found \o convert_reference_events(ref_list)
                 \o convert_group_events(findall(Val(ref_block), "referencegroup"))

(***************************************************************************)
(* The events of the content extractor, in the order of the traversal      *)
(***************************************************************************)
RECURSIVE extract_sections_events(_)
RECURSIVE extract_kids_events(_)
RECURSIVE extract_elem_events(_)

\* a text that is concatenated, stripped or searched: an exception when None
needs_text(o) == IF IsNone(o) THEN <<Raised("Exception")>> ELSE <<>>

extract_xref_events(elem) ==
    IF extract_xref_raises(elem) THEN <<Raised("Exception")>> ELSE extract_xref_log(elem)

section_title_events(elem) ==
    LET name == find(elem, "name") IN
    IF IsNone(name) THEN <<LogRecord("ERROR", "section with no name")>>
    ELSE needs_text(Val(name).text)

extract_sourcecode_events(e) ==
    IF IsNone(e.text) THEN <<Raised("Exception")>>
    ELSE IF IsNone(get(e, "type")) THEN <<>>
    ELSE <<Throttled("warn-lang")>>

extract_figure_events(e) ==
    LET artset == find(e, "artset")
        content == IF ~IsNone(artset) THEN find_ascii_art(e)
                   ELSE IF ~IsNone(find(e, "artwork")) THEN find(e, "artwork")
                   ELSE find(e, "sourcecode")
        name_el == find(e, "name")
        found == IF ~IsNone(artset) THEN <<LogRecord("WARNING", "artset found for figure")>>
                 ELSE <<>>
    IN IF IsNone(content)
       THEN IF ~IsNone(artset) THEN Append(found, LogRecord("ERROR", "no ASCII art"))
            ELSE <<LogRecord("WARNING", "figure has no content?")>>
       ELSE found \o extract_sourcecode_events(Val(content))
            \o (IF ~IsNone(name_el) THEN needs_text(Val(name_el).text) ELSE <<>>)

RECURSIVE extract_cells_events(_)
extract_cells_events(cells) ==
    IF cells = <<>> THEN <<>>
    ELSE extract_sections_events(Head(cells)) \o extract_cells_events(Tail(cells))

RECURSIVE extract_rows_events(_)
extract_rows_events(trs) ==
    IF trs = <<>> THEN <<>>
    ELSE extract_cells_events(findall(Head(trs), "td")) \o extract_rows_events(Tail(trs))

extract_table_events(root) ==
    LET thead == find(root, "thead")
        tr == IF IsNone(thead) THEN None ELSE find(Val(thead), "tr")
        head == IF IsNone(thead) THEN <<>> ELSE extract_cells_events(findall(Val(tr), "th"))
        tbody == find(root, "tbody")
        name_el == find(root, "name")
    IN IF ~IsNone(thead) /\ IsNone(tr) THEN <<LogRecord("ERROR", "no tr in table head")>>
       ELSE IF IsNone(tbody) THEN Append(head, LogRecord("ERROR", "no body for table"))
       ELSE IF Len(findall(Val(tbody), "tr")) = 0
       THEN Append(head, LogRecord("ERROR", "no rows in table body"))
       ELSE head \o extract_rows_events(findall(Val(tbody), "tr"))
            \o (IF ~IsNone(name_el) THEN needs_text(Val(name_el).text) ELSE <<>>)

extract_list_events(root) ==
    LET ts == find(root, "t") IN
    IF IsNone(ts) \/ Len(Val(ts).kids) = 0 THEN extract_sections_events(root)
    ELSE extract_cells_events(root.kids)

extract_elem_events(elem) ==
    LET tag == elem.tag IN
    IF tag \in {"t", "blockquote", "aside", "ul", "ol", "dl", "dt", "dd"}
    THEN extract_sections_events(elem)
    ELSE IF tag = "eref" THEN needs_text(get(elem, "target"))
    ELSE IF tag = "li" THEN extract_list_events(elem)
    ELSE IF tag = "section"
    THEN IF section_is_rendered(elem)
         THEN section_title_events(elem) \o extract_sections_events(elem)
         ELSE <<>>
    ELSE IF tag = "xref" THEN extract_xref_events(elem)
    ELSE IF tag \in {"bcp14", "tt", "emph", "em", "strong", "sup"} THEN needs_text(elem.text)
    ELSE IF tag = "contact" THEN needs_text(get(elem, "fullname"))
    ELSE IF tag \in {"displayreference", "br", "name", "references", "author"} THEN <<>>
    ELSE IF tag \in {"sourcecode", "artwork"} THEN extract_sourcecode_events(elem)
    ELSE IF tag = "figure" THEN extract_figure_events(elem)
    ELSE IF tag = "table" THEN extract_table_events(elem)
    ELSE <<LogRecord("ERROR", "skipping unknown element")>>

extract_kids_events(kids) ==
    IF kids = <<>> THEN <<>>
    ELSE extract_elem_events(Head(kids)) \o extract_kids_events(Tail(kids))

extract_sections_events(root) == extract_kids_events(root.kids)

\* extract_sections(x, ...) for x the result of a find: None has no text
extract_found_events(found) ==
    IF IsNone(found) THEN <<Raised("Exception")>>
    ELSE extract_sections_events(Val(found))

(***************************************************************************)
(* The document: front-matter block, abstract, middle and back             *)
(***************************************************************************)
\* the output text as the pieces appended to it; what yaml.safe_dump gives
\* for a value is kept as the value
TextPart(t) == [part |-> "text", v |-> t]
YamlPart(value) == [part |-> "yaml", v |-> value]

Yes == PyStr(<<"y", "e", "s">>)
TrueAttr == Some(<<"t", "r", "u", "e">>)
ContributorsSlug ==
    <<"n", "a", "m", "e", "-", "c", "o", "n", "t", "r", "i", "b", "u", "t", "o", "r", "s">>
Normative == <<"n", "o", "r", "m", "a", "t", "i", "v", "e">>
Informative == <<"i", "n", "f", "o", "r", "m", "a", "t", "i", "v", "e">>
Informational == <<"i", "n", "f", "o", "r", "m", "a", "t", "i", "o", "n", "a", "l">>

RECURSIVE first_contributors(_)
first_contributors(sections) ==
    IF sections = <<>> THEN None
    ELSE IF section_slug(Head(sections)) = Some(ContributorsSlug) THEN Some(Head(sections))
    ELSE first_contributors(Tail(sections))

find_contributors(rfc) == first_contributors(findall_path(<<rfc>>, <<"back", "section">>))

RECURSIVE keyword_texts(_)
keyword_texts(els) ==
    IF els = <<>> THEN <<>> ELSE <<PyText(Head(els).text)>> \o keyword_texts(Tail(els))

\* the processing instructions of the preamble, lines 425-448
preamble_pi(rfc) ==
    LET fixed == [k \in {"rfcedstyle", "strict", "comments", "inline", "docmapping"} |-> Yes]
        p0 == SetItem(fixed, "text-list-symbols", PyStr(<<"-", "o", "*", "+">>))
        p1 == IF get(rfc, "tocInclude") = TrueAttr THEN SetItem(p0, "toc", Yes) ELSE p0
        p2 == IF ~IsNone(get(rfc, "tocDepth")) THEN SetItem(p1, "tocindent", Yes) ELSE p1
        p3 == IF get(rfc, "sortRefs") = TrueAttr THEN SetItem(p2, "sortrefs", Yes) ELSE p2
    IN IF get(rfc, "symRefs") = TrueAttr THEN SetItem(p3, "symrefs", Yes) ELSE p3

\* the dict of extract_preamble, lines 398-459
preamble_dict(rfc) ==
    LET front == Val(find(rfc, "front"))
        title_el == Val(find(front, "title"))
        area_el == find(front, "area")
        workgroup_el == find(front, "workgroup")
        contributor_section == find_contributors(rfc)
        attr(o) == IF IsNone(o) THEN PyNone ELSE PyStr(Val(o))
        m1 == conditional_add(EmptyDict, "title", PyText(title_el.text))
        m2 == conditional_add(m1, "abbrev", attr(get(title_el, "abbrev")))
        m3 == conditional_add(m2, "docname", attr(get(rfc, "docName")))
        m4 == conditional_add(m3, "category", attr(get(rfc, "category")))
        m5 == conditional_add(m4, "ipr", attr(get(rfc, "ipr")))
        m6 == conditional_add(m5, "submissiontype", attr(get(rfc, "submissionType")))
        m7 == IF ~IsNone(area_el) THEN conditional_add(m6, "area", PyText(Val(area_el).text))
              ELSE m6
        m8 == IF ~IsNone(workgroup_el)
              THEN conditional_add(m7, "workgroup", PyText(Val(workgroup_el).text))
              ELSE m7
        m9 == SetItem(m8, "keyword", PyList(keyword_texts(findall(front, "keyword"))))
        m10 == SetItem(m9, "stand_alone", Yes)
        m11 == SetItem(m10, "pi", PyDict(preamble_pi(rfc)))
        m12 == SetItem(m11, "kramdown_options",
                       PyDict([k \in {"auto_id_prefix"} |->
                                  PyStr(<<"a", "u", "t", "o", "g", "e", "n", "-">>)]))
        m13 == SetItem(m12, "author", convert_authors(front, "author"))
    IN IF ~IsNone(contributor_section)
       THEN SetItem(m13, "contributor", convert_authors(Val(contributor_section), "contact"))
       ELSE m13

\* the informative references, with the fallback of lines 463-464
or_informational(informative, rfc) ==
    IF IsPyNone(informative) THEN convert_references(rfc, Informational) ELSE informative

informative_references(rfc) == or_informational(convert_references(rfc, Informative), rfc)

\* lines 474-477: the references are dumped under their key unless None
dump_references(key, refs) ==
    IF ~IsPyNone(refs) THEN <<YamlPart(PyDict(key :> refs))>> ELSE <<>>

extract_preamble(rfc) ==
    <<YamlPart(PyDict(preamble_dict(rfc))), TextPart(<<"\n", "\n">>)>>
    \o dump_references("normative", convert_references(rfc, Normative))
    \o dump_references("informative", informative_references(rfc))

\* front.find and title_el.text raise an AttributeError on None
extract_preamble_events(rfc) ==
    LET front == find(rfc, "front") IN
    IF IsNone(front) THEN <<Raised("Exception")>>
    ELSE IF IsNone(find(Val(front), "title")) THEN <<Raised("Exception")>>
    ELSE convert_references_events(rfc, Normative)
         \o convert_references_events(rfc, Informative)
         \o (IF IsPyNone(convert_references(rfc, Informative))
             THEN convert_references_events(rfc, Informational) ELSE <<>>)

Dashes == <<"-", "-", "-">>
AbstractMark == Dashes \o <<" ", "a", "b", "s", "t", "r", "a", "c", "t", "\n", "\n">>
MiddleMark == <<"\n">> \o Dashes \o <<" ", "m", "i", "d", "d", "l", "e", "\n", "\n">>
BackMark == <<"\n">> \o Dashes \o <<" ", "b", "a", "c", "k", "\n", "\n">>

\* lines 686-689 and 696-699
filled(extracted, do_fill) == IF ~do_fill THEN extracted ELSE fill_text(extracted)

\* parse_rfc on the parsed tree, when no step of it raises
parse_rfc(root, do_fill) ==
    LET abstract == Val(find_path(root, <<"front", "abstract">>))
        middle == Val(find(root, "middle"))
        back == Val(find(root, "back"))
    IN <<TextPart(Dashes \o <<"\n">>)>>
       \o extract_preamble(root)
       \o <<TextPart(<<"\n">>),
            TextPart(AbstractMark),
            TextPart(extract_sections(abstract, 0, 0, Lists_NoType, FALSE)),
            TextPart(<<"\n", "\n">>),
            TextPart(MiddleMark),
            TextPart(filled(extract_sections(middle, 0, 0, Lists_NoType, FALSE), do_fill)),
            TextPart(BackMark),
            TextPart(filled(extract_sections(back, 0, 0, Lists_NoType, FALSE), do_fill))>>

\* the tests "== ''" of lines 395, 676 and 683 are never true, and "!= ''" of
\* line 694 always is: the four parts are extracted whatever find returned
parse_rfc_events(root) ==
    IF root.tag # "rfc" THEN <<Raised("SystemExit")>>
    ELSE extract_preamble_events(root)
         \o extract_found_events(find_path(root, <<"front", "abstract">>))
         \o extract_found_events(find(root, "middle"))
         \o extract_found_events(find(root, "back"))

(***************************************************************************)
(* Bibliography: reference blocks of up to MaxReferences references        *)
(***************************************************************************)
MaxReferences == 2

RFC9000 == <<"R", "F", "C", "9", "0", "0", "0">>
DraftX == <<"I", "-", "D", ".", "x">>
Smith == <<"S", "m", "i", "t", "h">>
BCP14 == <<"B", "C", "P", "1", "4">>
GroupX == <<"G", "r", "p">>
DoiUrl == DoiPrefix \o <<"1", "0", ".", "1", "/", "x", "y", "z">>
OtherUrl == <<"h", "t", "t", "p", ":", "/", "/", "e">>
RefTitle == <<"T">>

RefAnchors == {None, Some(RFC9000), Some(DraftX), Some(Smith)}
RefTargets == {None, Some(DoiUrl), Some(OtherUrl)}
RefFronts == {"none", "notitle", "title"}

\* what a <reference> of the inputs holds: anchor, target, and its front block
RefShapes == [anchor : RefAnchors, target : RefTargets, front : RefFronts]

Reference(d) ==
    Element("reference", Attr("anchor", d.anchor) @@ Attr("target", d.target), None,
            IF d.front = "none" THEN <<>>
            ELSE IF d.front = "notitle" THEN <<Element("front", NoAttrib, None, <<>>, None)>>
            ELSE <<Element("front", NoAttrib, None,
                           <<Element("title", NoAttrib, Some(RefTitle), <<>>, None)>>, None)>>,
            None)

RECURSIVE References(_)
References(ds) ==
    IF ds = <<>> THEN <<>> ELSE <<Reference(Head(ds))>> \o References(Tail(ds))

ReferenceGroup(anchor) ==
    Element("referencegroup", Attr("anchor", Some(anchor)), None, <<>>, None)

\* a block named as the ref_type references, with the references and, when
\* grouped, two reference groups
ReferenceBlock(ref_type, ds, grouped) ==
    Element("references", NoAttrib, None,
            <<Element("name", Attr("slugifiedName", Some(ReferencesSlug(ref_type))),
                      None, <<>>, None)>>
            \o References(ds)
            \o (IF grouped THEN <<ReferenceGroup(BCP14), ReferenceGroup(GroupX)>> ELSE <<>>),
            None)

RefsDoc(a) ==
    Element("rfc", NoAttrib, None,
            <<Element("back", NoAttrib, None,
                      <<ReferenceBlock(a.block, a.refs, a.grouped)>>, None)>>,
            None)

InitRefs ==
    /\ pc = "ready"
    /\ op = "none"
    /\ \E n \in 0..MaxReferences : \E ds \in [1..n -> RefShapes] :
         \E grouped \in BOOLEAN, block \in {Normative, Informative} :
            /\ block = Informative => n <= 1
            /\ arg = [refs |-> ds, grouped |-> grouped, block |-> block,
                      ref_type |-> Normative]
    /\ ret = <<>>
    /\ log = <<>>
    /\ outfile = None

CallConvertReferences ==
    /\ pc = "ready"
    /\ op' = "convert_references"
    /\ LET events == convert_references_events(RefsDoc(arg), arg.ref_type) IN
       /\ log' = logged(events)
       /\ IF raises(events)
          THEN pc' = "aborted" /\ UNCHANGED ret
          ELSE pc' = "done" /\ ret' = convert_references(RefsDoc(arg), arg.ref_type)
    /\ UNCHANGED <<arg, outfile>>

SpecRefs == InitRefs /\ [][CallConvertReferences]_vars

\* the block was resolved: convert_references returned the dict of its entries
Resolved == pc = "done" /\ op = "convert_references" /\ ret.py = "dict"

SeriesAnchor(d) == d.anchor \in {Some(RFC9000), Some(DraftX)}
DoiTarget(d) == d.target = Some(DoiUrl)
DoiEntry == PyStr(<<"D", "O", "I", ".", "1", "0", ".", "1", "/", "x", "y", "z">>)

FullRecord(entry, d) ==
    /\ entry.py = "dict"
    /\ {"title", "date", "author"} \subseteq DOMAIN entry.v
    /\ entry.v["title"].py = "str"
    /\ entry.v["title"].v = RefTitle
    /\ ("target" \in DOMAIN entry.v) = ~IsNone(d.target)

\* the entry the claim gives to a reference: null, the DOI string, or a full record
EntryAsClaimed(entry, d) ==
    IF SeriesAnchor(d) THEN entry.py = "None"
    ELSE IF DoiTarget(d) THEN entry.py = "str" /\ entry.v = DoiEntry.v
    ELSE FullRecord(entry, d)

\* as stated: every reference of a resolved block has its own entry under its anchor
C3_AsStated ==
    Resolved =>
        /\ \A i \in DOMAIN arg.refs :
              /\ ~IsNone(arg.refs[i].anchor)
              /\ Val(arg.refs[i].anchor) \in DOMAIN ret.v
              /\ EntryAsClaimed(ret.v[Val(arg.refs[i].anchor)], arg.refs[i])
        /\ \A i, j \in DOMAIN arg.refs : arg.refs[i].anchor = arg.refs[j].anchor => i = j

\* a reference that gives an entry: it has an anchor, and a series anchor, a DOI
\* target or a front block with a title
GivesEntry(d) ==
    /\ ~IsNone(d.anchor)
    /\ SeriesAnchor(d) \/ DoiTarget(d) \/ d.front = "title"

\* the references of the block with the anchor that give an entry
Giving(anchor) == {i \in DOMAIN arg.refs : arg.refs[i].anchor = anchor /\ GivesEntry(arg.refs[i])}

LastOf(S) == CHOOSE i \in S : \A j \in S : j <= i

\* C3 (as the code has it): in a resolved block, a reference with an anchor gives
\* the entry under its anchor when it has a well-known series anchor (null), else a
\* DOI target ("DOI." and the rest of the target), else a front block with a title
\* (a full record); a reference with no anchor, or one that needs a full record and
\* has no front block or no title, gives no entry; of several references with one
\* anchor the last that gives an entry is the one kept.
C3_ReferenceEntries ==
    Resolved =>
        \A a \in {arg.refs[i].anchor : i \in DOMAIN arg.refs} \ {None} :
            IF Giving(a) = {} THEN Val(a) \notin DOMAIN ret.v
            ELSE /\ Val(a) \in DOMAIN ret.v
                 /\ EntryAsClaimed(ret.v[Val(a)], arg.refs[LastOf(Giving(a))])

\* the two examples of the claim in one block: RFC9000 gives null, the DOI target
\* gives "DOI.10.1/xyz"
C3_Witness ==
    /\ Resolved
    /\ arg.refs = <<[anchor |-> Some(RFC9000), target |-> None, front |-> "title"],
                    [anchor |-> Some(Smith), target |-> Some(DoiUrl), front |-> "none"]>>
    /\ ret.v[RFC9000].py = "None"
    /\ ret.v[Smith].py = "str"
    /\ ret.v[Smith].v = DoiEntry.v

(***************************************************************************)
(* A run of main on a document whose body paragraph holds up to MaxXrefs   *)
(* cross-references                                                        *)
(***************************************************************************)
MaxXrefs == 2

FormatOther == <<"x">>

RunSections == {None, Some(<<"3">>)}
RunSectionFormats ==
    {None, Some(SectionFormatOf), Some(SectionFormatParens), Some(FormatOther)}

\* what an <xref> of the inputs holds besides its target
XrefShapes == [section : RunSections, format : RunSectionFormats]

\* what the one <reference> of the inputs holds
RunRefShapes ==
    [anchor : {Some(RFC9000), Some(Smith)}, target : {None, Some(DoiUrl)}, front : RefFronts]

RECURSIVE Xrefs(_)
Xrefs(xs) ==
    IF xs = <<>> THEN <<>>
    ELSE <<XrefElement(Some(RFC1234), Head(xs).section, Head(xs).format, None, None)>>
         \o Xrefs(Tail(xs))

RunFront ==
    Element("front", NoAttrib, None,
            <<Element("title", NoAttrib, Some(<<"D">>), <<>>, None),
              Element("abstract", NoAttrib, None,
                      <<Element("t", NoAttrib, Some(<<"A">>), <<>>, None)>>, None)>>,
            None)

RunMiddle(xs) ==
    Element("middle", NoAttrib, None,
            <<Element("section", NoAttrib, None,
                      <<Element("name", NoAttrib, Some(<<"S">>), <<>>, None),
                        Element("t", NoAttrib, Some(<<"a">>), Xrefs(xs), None)>>,
                      None)>>,
            None)

RunBack(ds) ==
    Element("back", NoAttrib, None, <<ReferenceBlock(Normative, ds, FALSE)>>, None)

RunDoc(a) ==
    Element("rfc", NoAttrib, None,
            <<RunFront, RunMiddle(a.xrefs)>>
            \o (IF a.has_back THEN <<RunBack(a.refs)>> ELSE <<>>),
            None)

InitRun ==
    /\ pc = "ready"
    /\ op = "none"
    /\ \E n \in 0..MaxXrefs : \E xs \in [1..n -> XrefShapes] :
         \E m \in 0..1 : \E ds \in [1..m -> RunRefShapes] :
            \E has_back, do_fill \in BOOLEAN :
               /\ ~has_back => m = 0
               /\ arg = [xrefs |-> xs, refs |-> ds, has_back |-> has_back, fill |-> do_fill]
    /\ ret = <<>>
    /\ log = <<>>
    /\ outfile = None

\* main: parse_rfc, then the output file is opened and written; an exception
\* or sys.exit in parse_rfc ends the run before the file is opened
Main ==
    /\ pc = "ready"
    /\ op' = "main"
    /\ LET events == parse_rfc_events(RunDoc(arg)) IN
       /\ log' = logged(events)
       /\ IF raises(events)
          THEN pc' = "aborted" /\ UNCHANGED <<ret, outfile>>
          ELSE /\ pc' = "done"
               /\ ret' = parse_rfc(RunDoc(arg), arg.fill)
               /\ outfile' = Some(ret')
    /\ UNCHANGED arg

SpecRun == InitRun /\ [][Main]_vars

Ran == op = "main"

Aborted == pc = "aborted" /\ outfile = None

\* the run went through and the text it gave was written
Written == pc = "done" /\ ~IsNone(outfile) /\ Val(outfile) = ret

Logged(level, msg) == \E i \in DOMAIN log : log[i] = LogRecord(level, msg)

Count(level, msg) == Cardinality({i \in DOMAIN log : log[i] = LogRecord(level, msg)})

\* the text of the middle segment of the output
MiddleText ==
    LET i == CHOOSE j \in DOMAIN ret : ret[j].part = "text" /\ ret[j].v = MiddleMark
    IN ret[i + 1].v

HasSection(x) == ~IsNone(x.section)

SupportedFormats ==
    {Some(SectionFormatOf), Some(SectionFormatComma), Some(SectionFormatParens),
     Some(SectionFormatBare)}

\* a section attribute with no sectionFormat, and one with a value outside the four
AbsentFormat(x) == HasSection(x) /\ IsNone(x.format)
OtherFormat(x) == HasSection(x) /\ ~IsNone(x.format) /\ x.format \notin SupportedFormats

SomeXref(P(_)) == \E i \in DOMAIN arg.xrefs : P(arg.xrefs[i])

Lacking(d) == ~SeriesAnchor(d) /\ ~DoiTarget(d) /\ d.front \in {"none", "notitle"}

SomeRef(P(_)) == \E i \in DOMAIN arg.refs : P(arg.refs[i])

\* the bibliography entries of the output: the dict under "normative"
NormativeEntries ==
    LET i == CHOOSE j \in DOMAIN ret :
                 ret[j].part = "yaml" /\ "normative" \in DOMAIN ret[j].v.v
    IN ret[i].v.v["normative"].v

MarkAt(mark) == {j \in DOMAIN ret : ret[j].part = "text" /\ ret[j].v = mark}

\* the front-matter block opened by "---", then the abstract and the middle divider
ThreeSegments ==
    /\ pc = "done"
    /\ ret[1] = TextPart(Dashes \o <<"\n">>)
    /\ ret[2].part = "yaml"
    /\ \E a \in MarkAt(AbstractMark) : \E m \in MarkAt(MiddleMark) : 2 < a /\ a < m
    /\ \A a \in MarkAt(AbstractMark) : \A m \in MarkAt(MiddleMark) :
          \A b \in MarkAt(BackMark) : a < m /\ m < b

\* C11: for every document with root rfc, front-matter, abstract and body,
\* parse_rfc completes and returns the front-matter block, "--- abstract" and
\* "--- middle" in this order, followed by a "--- back" segment if and only if
\* the document has a back-matter element (a document without one gives exactly
\* the first three segments).  Documents whose run ends on a cross-reference
\* with no sectionFormat are left aside.
C11_SegmentsInOrder ==
    (Ran /\ ~SomeXref(AbsentFormat)) =>
        /\ ThreeSegments
        /\ (MarkAt(BackMark) # {}) <=> arg.has_back

\* what holds of the code: a document with a back-matter element gives the
\* four segments in order, and a document without one gives no output at all
C11_SegmentsWhenBack ==
    (Ran /\ ~SomeXref(AbsentFormat)) =>
        IF arg.has_back
        THEN ThreeSegments /\ Cardinality(MarkAt(BackMark)) = 1 /\ Written
        ELSE Aborted

(***************************************************************************)
(* The throttle over the calls of one run                                  *)
(***************************************************************************)

MaxCalls == 4

LangWarning == "language tag for source code may be incorrect"

MsgTypes == {"warn-lang", "warn-other"}

Msgs == {LangWarning, "other"}

\* source blocks with and without a language tag
SourceBlocks ==
    {Element("sourcecode", Attr("type", lang), Some(<<"x">>), <<>>, None) :
        lang \in {None, Some(<<"c">>)}}

\* arg: the calls of throttle made so far; ret: the module's messages
\* dictionary and the text the last operation returned
InitThrottle ==
    /\ pc = "ready"
    /\ op = "none"
    /\ arg = <<>>
    /\ ret = [messages |-> NoMessages, output |-> <<>>]
    /\ log = <<>>
    /\ outfile = None

\* throttle(msg_type, msg), lines 18-24
CallThrottle ==
    \E msg_type \in MsgTypes : \E msg \in Msgs :
        /\ Len(arg) < MaxCalls
        /\ pc' = "done"
        /\ op' = "throttle"
        /\ arg' = Append(arg, [msg_type |-> msg_type, msg |-> msg])
        /\ log' = IF throttle_logs(ret.messages, msg_type)
                  THEN Append(log, LogRecord("WARNING", msg))
                  ELSE log
        /\ ret' = [messages |-> throttle(ret.messages, msg_type), output |-> <<>>]
        /\ UNCHANGED outfile

\* extract_sourcecode(e), lines 137-155: throttle is called when the block
\* has a language tag
CallExtractSourcecode ==
    \E e \in SourceBlocks :
        LET tagged == ~IsNone(get(e, "type")) IN
        /\ tagged => Len(arg) < MaxCalls
        /\ pc' = "done"
        /\ op' = "extract_sourcecode"
        /\ arg' = IF tagged
                  THEN Append(arg, [msg_type |-> "warn-lang", msg |-> LangWarning])
                  ELSE arg
        /\ log' = IF tagged /\ throttle_logs(ret.messages, "warn-lang")
                  THEN Append(log, LogRecord("WARNING", LangWarning))
                  ELSE log
        /\ ret' = [messages |-> IF tagged THEN throttle(ret.messages, "warn-lang")
                                ELSE ret.messages,
                   output |-> extract_sourcecode(e)]
        /\ UNCHANGED outfile

NextThrottle == CallThrottle \/ CallExtractSourcecode

SpecThrottle == InitThrottle /\ [][NextThrottle]_vars

\* the calls that are the first of their category
FirstCalls ==
    {i \in DOMAIN arg : \A j \in 1..(i - 1) : arg[j].msg_type # arg[i].msg_type}

CallsOf(msg_type) == {i \in DOMAIN arg : arg[i].msg_type = msg_type}

CounterOf(msg_type) ==
    IF msg_type \in DOMAIN ret.messages THEN ret.messages[msg_type] ELSE 0

\* C12: over any sequence of throttle calls of one run, the warnings logged
\* are those of the first call of each message category, in call order, and
\* of no later call; and the counter of each category is the number of calls
\* made so far for it.
C12_WarnOncePerCategory ==
    /\ Len(log) = Cardinality(FirstCalls)
    /\ \A i \in FirstCalls :
          log[Cardinality({j \in FirstCalls : j <= i})] = LogRecord("WARNING", arg[i].msg)
    /\ \A msg_type \in MsgTypes : CounterOf(msg_type) = Cardinality(CallsOf(msg_type))
    /\ DOMAIN ret.messages = {arg[i].msg_type : i \in DOMAIN arg}

\* two source blocks with a language tag and a call of another category
C12_Witness ==
    /\ op = "extract_sourcecode"
    /\ Cardinality(CallsOf("warn-lang")) >= 2
    /\ CallsOf("warn-other") # {}
    /\ Len(log) = 2
    /\ CounterOf("warn-lang") = Cardinality(CallsOf("warn-lang"))

(***************************************************************************)
(* Table cells: a cell of text and up to MaxCellKids child elements        *)
(***************************************************************************)

MaxCellKids == 2

\* one line, two lines, two lines with an indented second line
CellTexts == {None, Some(<<"a">>), Some(<<"a", "\n", "b">>), Some(<<"a", "\n", " ", "b">>)}

CellParagraph == Element("t", NoAttrib, Some(<<"p">>), <<>>, None)

CellBreak == Element("br", NoAttrib, None, <<>>, Some(<<"q">>))

CellList ==
    Element("ul", NoAttrib, None, <<Element("li", NoAttrib, Some(<<"i">>), <<>>, None)>>, None)

\* an inline element followed by text of two lines
CellEmph == Element("em", NoAttrib, Some(<<"e">>), <<>>, Some(<<" ", "x", "\n", "y">>))

CellKids == {CellParagraph, CellBreak, CellList, CellEmph}

\* a table of one column with a header row and one body row
CellTable(th, td) ==
    Element("table", NoAttrib, None,
            <<Element("thead", NoAttrib, None,
                      <<Element("tr", NoAttrib, None, <<th>>, None)>>, None),
              Element("tbody", NoAttrib, None,
                      <<Element("tr", NoAttrib, None, <<td>>, None)>>, None)>>,
            None)

InitCell ==
    /\ pc = "ready"
    /\ op = "none"
    /\ \E tag \in {"th", "td"}, txt \in CellTexts, n \in 0..MaxCellKids :
         \E kids \in [1..n -> CellKids] :
            arg = Element(tag, NoAttrib, txt, kids, None)
    /\ ret = <<>>
    /\ log = <<>>
    /\ outfile = None

\* the call of lines 201 and 226 for the cell
CallExtractCell ==
    /\ pc = "ready"
    /\ pc' = "done"
    /\ op' = "extract_sections"
    /\ ret' = extract_sections(arg, 0, 0, Lists_NoType, TRUE)
    /\ UNCHANGED <<arg, log, outfile>>

\* extract_table on the table that has the cell in its header row or in its
\* body row, next to a cell of one word
CallExtractCellTable ==
    /\ pc = "ready"
    /\ pc' = "done"
    /\ op' = "extract_table"
    /\ ret' = IF arg.tag = "th"
              THEN extract_table(CellTable(arg, BodyCell(<<"1">>)))
              ELSE extract_table(CellTable(HeaderCell(1, None), arg))
    /\ UNCHANGED <<arg, log, outfile>>

NextCell == CallExtractCell \/ CallExtractCellTable

SpecCell == InitCell /\ [][NextCell]_vars

LineBreaks(t) == Cardinality({i \in DOMAIN t : t[i] = "\n"})

\* the line breaks of the table whose two cells are of one word each: the
\* leading one and one after each of the header row, the alignment row and
\* the body row
TableLineBreaks == LineBreaks(extract_table(CellTable(HeaderCell(1, None), BodyCell(<<"1">>))))

\* C13: every table header cell and body cell is rendered in span mode: the
\* text emitted for the cell has no line break, whether its text spans
\* several lines or it holds nested paragraphs, line-break elements or lists;
\* so the table has one line per row.
C13_CellOnOneLine ==
    /\ (pc = "done" /\ op = "extract_sections") => LineBreaks(ret) = 0
    /\ (pc = "done" /\ op = "extract_table") => LineBreaks(ret) = TableLineBreaks

\* what holds of the code: span mode reaches the cell's own text and the
\* text after each child, and not the children: a cell is on one line when
\* it has no paragraph, line-break element or list item in it
C13_InlineCellOnOneLine ==
    (pc = "done" /\ \A k \in DOMAIN arg.kids : arg.kids[k] = CellEmph) =>
        /\ op = "extract_sections" => LineBreaks(ret) = 0
        /\ op = "extract_table" => LineBreaks(ret) = TableLineBreaks

(***************************************************************************)
(* Block quotes and asides: text and up to MaxQuoteKids child elements     *)
(***************************************************************************)

MaxQuoteKids == 2

QuoteTexts == {None, Some(<<"a">>), Some(<<"a", "\n", "b">>)}

QuoteParagraph == Element("t", NoAttrib, Some(<<"p">>), <<>>, None)

QuoteList ==
    Element("ul", NoAttrib, None,
            <<Element("li", NoAttrib, Some(<<"i">>), <<>>, None),
              Element("li", NoAttrib, Some(<<"j">>), <<>>, None)>>, None)

QuoteEmph == Element("em", NoAttrib, Some(<<"e">>), <<>>, Some(<<" ", "x">>))

QuoteKids == {QuoteParagraph, QuoteList, QuoteEmph}

InitQuote ==
    /\ pc = "ready"
    /\ op = "none"
    /\ \E tag \in {"blockquote", "aside"}, txt \in QuoteTexts, n \in 0..MaxQuoteKids :
         \E kids \in [1..n -> QuoteKids] :
            arg = Element(tag, NoAttrib, txt, kids, None)
    /\ ret = <<>>
    /\ log = <<>>
    /\ outfile = None

\* extract_sections on a section body whose one child is the quote
CallExtractQuote ==
    /\ pc = "ready"
    /\ pc' = "done"
    /\ op' = "extract_sections"
    /\ ret' = extract_sections(Element("section", NoAttrib, None, <<arg>>, None),
                               1, 0, Lists_NoType, FALSE)
    /\ UNCHANGED <<arg, log, outfile>>

\* the quote as a child of a list item
CallExtractListOnQuote ==
    /\ pc = "ready"
    /\ pc' = "done"
    /\ op' = "extract_list"
    /\ ret' = extract_list(Element("li", NoAttrib, None, <<arg>>, None),
                           1, 1, Lists_Unordered)
    /\ UNCHANGED <<arg, log, outfile>>

NextQuote == CallExtractQuote \/ CallExtractListOnQuote

SpecQuote == InitQuote /\ [][NextQuote]_vars

\* the line that holds the attribute tag
AttributeLine(tag) ==
    IF tag = "blockquote" THEN <<"{", ":", "q", "u", "o", "t", "e", "}", "\n">>
    ELSE <<"{", ":", "a", "s", "i", "d", "e", "}", "\n">>

\* every line of t that is not empty starts with ">"
EveryLineQuoted(t) ==
    \A i \in DOMAIN t :
        ((i = 1 \/ t[i - 1] = "\n") /\ t[i] # "\n") => t[i] = ">"

\* C14: a block quote or aside is rendered as the attribute tag "{:quote}" or
\* "{:aside}" followed by a quoted block in which every line of the quoted
\* content starts with ">", for content of any number of lines or paragraphs.
C14_EveryLineQuoted ==
    (pc = "done" /\ op = "extract_sections") =>
        /\ startswith(ret, AttributeLine(arg.tag))
        /\ EveryLineQuoted(SubSeq(ret, Len(AttributeLine(arg.tag)) + 1, Len(ret)))

\* what holds of the code: the attribute tag, then "> " before the first
\* line only, then the content as it is rendered anywhere else
C14_FirstLineQuoted ==
    (pc = "done" /\ op = "extract_sections") =>
        ret = AttributeLine(arg.tag) \o <<">", " ">>
              \o lstrip(extract_sections(arg, 1, 0, Lists_NoType, FALSE)) \o <<"\n">>

(***************************************************************************)
(* The list nesting depth: items that hold lists down to MaxListDepth,     *)
(* rendered at a depth of up to MaxListLevel                               *)
(***************************************************************************)

MaxListDepth == 2
MaxListLevel == 2

\* an item whose list holds an item whose list holds an item, d deep
RECURSIVE NestedItem(_, _)
NestedItem(tag, d) ==
    IF d <= 1 THEN Leaf("li", Some(<<"i">>), None)
    ELSE Element("li", NoAttrib, Some(<<"i">>),
                 <<Element(tag, NoAttrib, None,
                           <<NestedItem(tag, d - 1), Leaf("li", Some(<<"j">>), None)>>, None)>>,
                 None)

\* an item of two paragraphs with a list between them
LooseNestedItem ==
    Element("li", NoAttrib, None,
            <<EmphParagraph,
              Element("ul", NoAttrib, None, <<NestedItem("ul", 1)>>, None),
              PlainParagraph>>,
            None)

\* an item that holds a section with a list in it
SectionItem ==
    Element("li", NoAttrib, None,
            <<Element("section", NoAttrib, None,
                      <<Leaf("name", Some(<<"S">>), None),
                        Element("ol", NoAttrib, None, <<NestedItem("ol", 2)>>, None)>>,
                      None)>>,
            None)

\* an item that holds a definition list with a list in the definition
DefinitionItem ==
    Element("li", NoAttrib, None,
            <<Element("dl", NoAttrib, None,
                      <<Leaf("dt", Some(<<"k">>), None),
                        Element("dd", NoAttrib, None,
                                <<Element("ul", NoAttrib, None, <<NestedItem("ul", 1)>>, None)>>,
                                None)>>,
                      None)>>,
            None)

DepthItems ==
    {NestedItem(tag, d) : tag \in {"ul", "ol"}, d \in 1..MaxListDepth}
    \cup {LooseNestedItem, SectionItem, DefinitionItem}

\* the list element that has the item as its only item
ListOf(item, list_type) ==
    Element(<<"section", "ul", "ol", "dl">>[list_type + 1], NoAttrib, None, <<item>>, None)

InitDepth ==
    /\ pc = "ready"
    /\ op = "none"
    /\ \E item \in DepthItems, section_level \in 0..1, list_level \in 0..MaxListLevel,
          list_type \in {Lists_NoType, Lists_Unordered, Lists_Ordered, Lists_Definition},
          span \in BOOLEAN :
            arg = [item |-> item, section_level |-> section_level, list_level |-> list_level,
                   list_type |-> list_type, span |-> span]
    /\ ret = <<>>
    /\ log = <<>>
    /\ outfile = None

CallExtractSectionsAtDepth ==
    /\ pc = "ready"
    /\ pc' = "done"
    /\ op' = "extract_sections"
    /\ ret' = extract_sections(ListOf(arg.item, arg.list_type), arg.section_level,
                               arg.list_level, arg.list_type, arg.span)
    /\ UNCHANGED <<arg, log, outfile>>

CallExtractListAtDepth ==
    /\ pc = "ready"
    /\ pc' = "done"
    /\ op' = "extract_list"
    /\ ret' = extract_list(arg.item, arg.section_level, arg.list_level, arg.list_type)
    /\ UNCHANGED <<arg, log, outfile>>

NextDepth == CallExtractSectionsAtDepth \/ CallExtractListAtDepth

SpecDepth == InitDepth /\ [][NextDepth]_vars

\* C15: the emitted text does not depend on the list nesting depth: for every
\* element subtree, section level, list type and span flag, extract_sections
\* and extract_list return the same text at every value of list_level, so an
\* item of a nested list has the indentation of an item of a top-level list.
C15_DepthNeverRead ==
    pc = "done" =>
        \A list_level \in 0..MaxListLevel :
            /\ op = "extract_sections" =>
                  ret = extract_sections(ListOf(arg.item, arg.list_type), arg.section_level,
                                         list_level, arg.list_type, arg.span)
            /\ op = "extract_list" =>
                  ret = extract_list(arg.item, arg.section_level, list_level, arg.list_type)

\* the deepest item at the greatest depth, rendered as it is at depth 0, its
\* inner item with no indentation
C15_Witness ==
    /\ pc = "done"
    /\ op = "extract_list"
    /\ arg.item = NestedItem("ul", MaxListDepth)
    /\ arg.list_level = MaxListLevel
    /\ arg.list_type = Lists_Unordered
    /\ ret = extract_list(arg.item, arg.section_level, 0, arg.list_type)
    /\ Contains(ret, <<"\n", "*", " ", "j", "\n">>)

====
